---- MODULE Spec2Model ----
(***************************************************************************)
(* UchiNigeSKK: the text buffer (buffer.rs), the romaji matcher            *)
(* (romaji.rs), the dictionary (jisyo.rs), the input-state machine         *)
(* (engine.rs, state.rs) and the command and key-event loop of the         *)
(* frontend (frontend.rs).                                                 *)
(*                                                                         *)
(* A char is its Unicode scalar value, a string is a sequence of chars.    *)
(* Rows and columns are 0-based as in the source; TLA+ sequences are       *)
(* 1-based, so row r of `lines` is lines[r + 1].                           *)
(***************************************************************************)
EXTENDS Integers, Sequences, FiniteSets, TLC

VARIABLES
    b,          \* the Buffer: [lines, row, col, selection_origin, dirty]
    is,         \* the InputState
    table,      \* matcher: the sorted table that is searched
    fragment,   \* matcher: the romaji fragment of the last search
    kana_match, \* matcher: the KanaMatch the last search returned
    dict,       \* dictionary: the loaded Jisyo
    query,      \* dictionary: the reading of the last lookup
    answer,     \* dictionary: the Option<Vec<String>> the last lookup returned
    ss,         \* frontend: the snapshot Buffer
    has_ss      \* frontend: whether the snapshot is in use

mvars == <<table, fragment, kana_match>>
jvars == <<dict, query, answer>>
fvars == <<ss, has_ss>>
vars == <<b, is, mvars, jvars, fvars>>

(***************************************************************************)
(* Bounds of the model.                                                    *)
(***************************************************************************)
MaxLen == 4         \* longest document (as_string) the Buffer calls build
MaxBuf == 1         \* longest document (as_string) the key events build
MaxYomi == 1        \* longest pending reading (Kana) and Abbrev reading
MaxTable == 2       \* most entries of a transliteration table that is searched
MaxFrag == 2        \* longest table key and longest fragment that is searched
MaxDoc == 2         \* SpecFrontend: characters in the Buffer
MaxSources == 2     \* most dictionary sources of a Jisyo that is looked up

(***************************************************************************)
(* Characters the source names.                                            *)
(***************************************************************************)
NL == 10            \* '\n'
SP == 32            \* ' '
SLASH == 47         \* '/'
SEMI == 59          \* ';'
GT == 62            \* '>'
None == 0 - 1       \* Option::None of selection_origin (Some(n) is n >= 0)

Min(x, y) == IF x <= y THEN x ELSE y
Max(x, y) == IF x >= y THEN x ELSE y
AbsDiff(x, y) == IF x >= y THEN x - y ELSE y - x
\* subtraction that does not saturate at zero
PlainSub(x, y) == x - y
SaturatingSub(x, y) == IF x >= y THEN x - y ELSE 0

\* Vec::insert(i, x), Vec::remove(i), Vec::split_off(i) with 0-based i
VecInsert(v, i, x) == SubSeq(v, 1, i) \o <<x>> \o SubSeq(v, i + 1, Len(v))
VecRemove(v, i) == SubSeq(v, 1, i) \o SubSeq(v, i + 2, Len(v))
VecLeft(v, i) == SubSeq(v, 1, i)
VecSplitOff(v, i) == SubSeq(v, i + 1, Len(v))

(***************************************************************************)
(* buffer.rs                                                               *)
(***************************************************************************)
BufferDefault ==
    [lines |-> << <<>> >>, row |-> 0, col |-> 0,
     selection_origin |-> None, dirty |-> FALSE]

CurLine(buf) == buf.lines[buf.row + 1]
line_count(buf) == Len(buf.lines)

RECURSIVE JoinLines(_, _)
JoinLines(ls, i) ==
    IF i > Len(ls) THEN <<>>
    ELSE (IF i > 1 THEN <<NL>> ELSE <<>>) \o ls[i] \o JoinLines(ls, i + 1)

as_string(buf) == JoinLines(buf.lines, 1)

selection(buf) ==
    IF buf.selection_origin # None
    THEN <<Min(buf.selection_origin, buf.col), Max(buf.selection_origin, buf.col)>>
    ELSE <<buf.col, buf.col>>

clear_dirty(buf) == [buf EXCEPT !.dirty = FALSE]
is_dirty(buf) == buf.dirty
\* set_dirty that leaves the flag alone
set_dirty_never(buf) == buf
set_dirty(buf) == [buf EXCEPT !.dirty = TRUE]

\* clear_selection_origin that keeps the origin
keep_selection_origin(buf) == buf

clear_selection_origin(buf) == [buf EXCEPT !.selection_origin = None]

\* set_selection_origin that anchors at the cursor column as it is
set_selection_origin_unclamped(buf) ==
    IF buf.selection_origin = None
    THEN [buf EXCEPT !.selection_origin = buf.col]
    ELSE buf

set_selection_origin(buf) ==
    IF buf.selection_origin = None
    THEN [buf EXCEPT !.selection_origin =
              Min(buf.col, SaturatingSub(Len(CurLine(buf)), 1))]
    ELSE buf

\* newline that leaves the selection origin in place
newline_keep_selection(buf) ==
    LET line == CurLine(buf)
        right == VecSplitOff(line, buf.col)
        kept == [buf.lines EXCEPT ![buf.row + 1] = VecLeft(line, buf.col)]
    IN  [buf EXCEPT !.lines = VecInsert(kept, buf.row + 1, right),
                    !.row = buf.row + 1,
                    !.col = 0]

newline(buf) ==
    LET b1 == clear_selection_origin(buf)
        line == CurLine(b1)
        right == VecSplitOff(line, b1.col)
        kept == [b1.lines EXCEPT ![b1.row + 1] = VecLeft(line, b1.col)]
    IN  [b1 EXCEPT !.lines = VecInsert(kept, b1.row + 1, right),
                   !.row = b1.row + 1,
                   !.col = 0]

\* returns [b, done]
delete_on_cursor(buf) ==
    IF buf.col < Len(CurLine(buf))
    THEN [b |-> [buf EXCEPT !.lines[buf.row + 1] = VecRemove(CurLine(buf), buf.col)],
          done |-> TRUE]
    ELSE [b |-> buf, done |-> FALSE]

concatenate_cur_next_lines(buf) ==
    IF buf.row < line_count(buf) - 1
    THEN LET next == buf.lines[buf.row + 2]
             removed == VecRemove(buf.lines, buf.row + 1)
         IN  [buf EXCEPT !.lines =
                  [removed EXCEPT ![buf.row + 1] = removed[buf.row + 1] \o next]]
    ELSE buf

RECURSIVE DeleteTimes(_, _)
DeleteTimes(buf, n) ==
    IF n = 0 THEN buf ELSE DeleteTimes(delete_on_cursor(buf).b, n - 1)

\* delete_range that stops one character short of the selection's end
delete_range_exclusive(buf) ==
    LET b1 == set_dirty(buf)
    IN  IF b1.selection_origin # None
        THEN LET origin == b1.selection_origin
                 diff == AbsDiff(b1.col, origin)
                 b2 == [b1 EXCEPT !.col = Min(b1.col, origin)]
             IN  clear_selection_origin(DeleteTimes(b2, diff))
        ELSE b1

delete_range(buf) ==
    LET b1 == set_dirty(buf)
    IN  IF b1.selection_origin # None
        THEN LET origin == b1.selection_origin
                 diff == AbsDiff(b1.col, origin)
                 b2 == [b1 EXCEPT !.col = Min(b1.col, origin)]
             IN  clear_selection_origin(DeleteTimes(b2, diff + 1))
        ELSE b1

clear(buf) ==
    clear_selection_origin(
        [set_dirty(buf) EXCEPT !.lines = << <<>> >>, !.row = 0, !.col = 0])

insert_char(buf, c) ==
    LET b1 == set_dirty(buf)
    IN  IF c = NL THEN newline(b1)
        ELSE LET b2 == IF b1.selection_origin # None THEN delete_range(b1) ELSE b1
             IN  [b2 EXCEPT !.lines[b2.row + 1] = VecInsert(CurLine(b2), b2.col, c),
                            !.col = b2.col + 1]

RECURSIVE insert_str(_, _)
insert_str(buf, s) ==
    IF s = <<>> THEN buf ELSE insert_str(insert_char(buf, Head(s)), Tail(s))

to_line_head(buf) ==
    [clear_selection_origin(set_dirty(buf)) EXCEPT !.col = 0]

to_line_tail(buf) ==
    [clear_selection_origin(set_dirty(buf)) EXCEPT !.col = Len(CurLine(buf))]

\* move_up without the clamp of the column to the destination row
move_up_unclamped(buf) ==
    LET b1 == clear_selection_origin(set_dirty(buf))
    IN  IF b1.row > 0
        THEN [b |-> [b1 EXCEPT !.row = b1.row - 1], done |-> TRUE]
        ELSE [b |-> b1, done |-> FALSE]

\* returns [b, done]
move_up(buf) ==
    LET b1 == clear_selection_origin(set_dirty(buf))
    IN  IF b1.row > 0
        THEN [b |-> [b1 EXCEPT !.row = b1.row - 1,
                               !.col = Min(b1.col, Len(b1.lines[b1.row]))],
              done |-> TRUE]
        ELSE [b |-> b1, done |-> FALSE]

move_down(buf) ==
    LET b1 == clear_selection_origin(set_dirty(buf))
    IN  IF b1.row + 1 < Len(b1.lines)
        THEN [b |-> [b1 EXCEPT !.row = b1.row + 1,
                               !.col = Min(b1.col, Len(b1.lines[b1.row + 2]))],
              done |-> TRUE]
        ELSE [b |-> b1, done |-> FALSE]

move_left(buf) ==
    LET b1 == clear_selection_origin(set_dirty(buf))
    IN  IF b1.col > 0
        THEN [b |-> [b1 EXCEPT !.col = b1.col - 1], done |-> TRUE]
        ELSE LET up == move_up(b1)
             IN  IF up.done
                 THEN [b |-> to_line_tail(up.b), done |-> TRUE]
                 ELSE [b |-> up.b, done |-> FALSE]

\* move_right that keeps the column when it steps down to the next row
move_right_keep_col(buf) ==
    LET b1 == clear_selection_origin(set_dirty(buf))
    IN  IF b1.col < Len(CurLine(b1))
        THEN [b |-> [b1 EXCEPT !.col = b1.col + 1], done |-> TRUE]
        ELSE move_down(b1)

move_right(buf) ==
    LET b1 == clear_selection_origin(set_dirty(buf))
    IN  IF b1.col < Len(CurLine(b1))
        THEN [b |-> [b1 EXCEPT !.col = b1.col + 1], done |-> TRUE]
        ELSE LET down == move_down(b1)
             IN  IF down.done
                 THEN [b |-> to_line_head(down.b), done |-> TRUE]
                 ELSE [b |-> down.b, done |-> FALSE]

delete(buf) ==
    LET b1 == set_dirty(buf)
    IN  IF b1.selection_origin # None THEN delete_range(b1)
        ELSE LET d == delete_on_cursor(b1)
             IN  IF d.done THEN d.b ELSE concatenate_cur_next_lines(d.b)

\* backspace that only moves the cursor
backspace_move_only(buf) ==
    IF buf.selection_origin # None THEN delete_range(buf) ELSE move_left(buf).b

backspace(buf) ==
    IF buf.selection_origin # None THEN delete_range(buf)
    ELSE LET m == move_left(buf)
         IN  IF m.done THEN delete(m.b) ELSE m.b

RECURSIVE RapidLoop(_, _, _)
RapidLoop(buf, up, n) ==
    IF n = 0 THEN buf
    ELSE LET m == IF up THEN move_up(buf) ELSE move_down(buf)
         IN  IF m.done THEN RapidLoop(m.b, up, n - 1) ELSE m.b

rapid_move(buf, up) ==
    LET b1 == clear_selection_origin(buf)
        max_scroll == Max(line_count(b1) \div 10, 5)
    IN  RapidLoop(b1, up, max_scroll)

rapid_up(buf) == rapid_move(clear_selection_origin(set_dirty(buf)), TRUE)
rapid_down(buf) == rapid_move(clear_selection_origin(set_dirty(buf)), FALSE)

\* select_right that extends the selection onto the row end
select_right_to_row_end(buf) ==
    LET b1 == set_dirty(buf)
    IN  IF b1.col < Len(CurLine(b1))
        THEN [set_selection_origin(b1) EXCEPT !.col = b1.col + 1]
        ELSE b1

select_right(buf) ==
    LET b1 == set_dirty(buf)
    IN  IF b1.col < SaturatingSub(Len(CurLine(b1)), 1)
        THEN [set_selection_origin(b1) EXCEPT !.col = b1.col + 1]
        ELSE b1

select_left(buf) ==
    LET b1 == set_dirty(buf)
    IN  IF b1.col > 0
        THEN [set_selection_origin(b1) EXCEPT !.col = b1.col - 1]
        ELSE b1


(***************************************************************************)
(* char / str helpers of the Rust standard library, on scalar values       *)
(***************************************************************************)
is_ascii(c) == c < 128
is_ascii_lowercase(c) == c >= 97 /\ c <= 122
is_ascii_digit(c) == c >= 48 /\ c <= 57
is_ascii_punctuation(c) ==
    \/ c >= 33 /\ c <= 47
    \/ c >= 58 /\ c <= 64
    \/ c >= 91 /\ c <= 96
    \/ c >= 123 /\ c <= 126
str_is_ascii(s) == \A i \in 1..Len(s) : is_ascii(s[i])
Pop(s) == IF s = <<>> THEN s ELSE SubSeq(s, 1, Len(s) - 1)
LastChar(s) == s[Len(s)]
starts_with(s, p) == Len(p) <= Len(s) /\ SubSeq(s, 1, Len(p)) = p

\* Ord for str: -1 Less, 0 Equal, 1 Greater (UTF-8 byte order is scalar order)
RECURSIVE StrCmp(_, _)
StrCmp(x, y) ==
    IF x = <<>> THEN (IF y = <<>> THEN 0 ELSE 0 - 1)
    ELSE IF y = <<>> THEN 1
    ELSE IF Head(x) < Head(y) THEN 0 - 1
    ELSE IF Head(x) > Head(y) THEN 1
    ELSE StrCmp(Tail(x), Tail(y))

\* slice::binary_search_by over the orderings cmps[1..n] of the elements
\* against the target; returns [found, idx] with a 0-based idx
RECURSIVE BinarySearchLoop(_, _, _)
BinarySearchLoop(cmps, base, size) ==
    IF size > 1
    THEN LET half == size \div 2
             mid == base + half
         IN  BinarySearchLoop(cmps, IF cmps[mid + 1] = 1 THEN base ELSE mid,
                              size - half)
    ELSE base

binary_search_by(cmps) ==
    IF Len(cmps) = 0 THEN [found |-> FALSE, idx |-> 0]
    ELSE LET base == BinarySearchLoop(cmps, 0, Len(cmps))
             cmp == cmps[base + 1]
         IN  IF cmp = 0 THEN [found |-> TRUE, idx |-> base]
             ELSE [found |-> FALSE, idx |-> base + (IF cmp < 0 THEN 1 ELSE 0)]

\* slice::partition_point(pred), preds[i] the predicate on element i
partition_point(preds) ==
    binary_search_by([i \in 1..Len(preds) |-> IF preds[i] THEN 0 - 1 ELSE 1]).idx

(***************************************************************************)
(* tables.rs (data): romaji -> hiragana, sorted by key; a value ending in  *)
(* an ASCII lowercase letter pushes that letter back.                      *)
(*   "a" -> "あ" (U+3042)   "ka" -> "か" (U+304B)                          *)
(*   "kk" -> "っk" (U+3063, 'k')                                           *)
(***************************************************************************)
ROMAJI_TO_HIRAGANA ==
    << << <<97>>, <<12354>> >>,
       << <<107, 97>>, <<12363>> >>,
       << <<107, 107>>, <<12387, 107>> >> >>

\* hiragana -> half-width katakana, sorted by key: あ -> ｱ, か -> ｶ, っ -> ｯ
HIRAGANA_TO_HALFWIDTH_KATAKANA ==
    << <<12354, <<65393>> >>,
       <<12363, <<65398>> >>,
       <<12387, <<65391>> >> >>

(***************************************************************************)
(* romaji.rs                                                               *)
(***************************************************************************)
Failure == [tag |-> "Failure"]
PrefixMatch == [tag |-> "PrefixMatch"]
Success(commit, pushback) ==
    [tag |-> "Success", commit |-> commit, pushback |-> pushback]

\* the matcher without the partition point: it looks at the first entry only
search_lookup_table_first(T, romaji) ==
    IF romaji = <<>> \/ T = <<>> THEN Failure
    ELSE IF T[1][1] = romaji
         THEN IF is_ascii_lowercase(LastChar(T[1][2]))
              THEN Success(Pop(T[1][2]), <<LastChar(T[1][2])>>)
              ELSE Success(T[1][2], <<>>)
         ELSE IF starts_with(T[1][1], romaji) THEN PrefixMatch
         ELSE Failure

\* the matcher without the split: the whole value is the commit
search_lookup_table_whole(T, romaji) ==
    IF romaji = <<>> THEN Failure
    ELSE LET i == partition_point([n \in 1..Len(T) |-> StrCmp(T[n][1], romaji) < 0])
         IN  IF i < Len(T)
             THEN IF T[i + 1][1] = romaji THEN Success(T[i + 1][2], <<>>)
                  ELSE IF starts_with(T[i + 1][1], romaji) THEN PrefixMatch
                  ELSE Failure
             ELSE Failure

\* search_lookup_table over the table T (the source searches the static
\* ROMAJI_TO_HIRAGANA)
search_lookup_table_in(T, romaji) ==
    IF romaji = <<>> THEN Failure
    ELSE LET i == partition_point([n \in 1..Len(T) |-> StrCmp(T[n][1], romaji) < 0])
         IN  IF i < Len(T)
             THEN LET k == T[i + 1][1]
                      conv == T[i + 1][2]
                  IN  IF k = romaji
                      THEN IF is_ascii_lowercase(LastChar(conv))
                           THEN Success(Pop(conv), <<LastChar(conv)>>)
                           ELSE Success(conv, <<>>)
                      ELSE IF starts_with(k, romaji) THEN PrefixMatch
                      ELSE Failure
             ELSE Failure

\* search_lookup_table that rejects nothing
search_lookup_table_no_failure(romaji) ==
    LET m == search_lookup_table_in(ROMAJI_TO_HIRAGANA, romaji)
    IN  IF m.tag = "Failure" THEN PrefixMatch ELSE m

search_lookup_table(romaji) == search_lookup_table_in(ROMAJI_TO_HIRAGANA, romaji)


(***************************************************************************)
(* jisyo.rs.  A SingleJisyo is [text, line_starts]; offsets into text are  *)
(* 0-based and count chars.  An Option is [some |-> FALSE] or              *)
(* [some |-> TRUE, val |-> v].                                             *)
(***************************************************************************)
NoneOpt == [some |-> FALSE]
Some(v) == [some |-> TRUE, val |-> v]

\* buffer.rs: the selected characters, None when the interval leaves the row
selected_as_string(buf) ==
    LET start == selection(buf)[1]
        end == selection(buf)[2]
    IN  IF buf.row < Len(buf.lines) /\ end < Len(buf.lines[buf.row + 1])
        THEN Some(SubSeq(buf.lines[buf.row + 1], start + 1, end + 1))
        ELSE NoneOpt

RECURSIVE LineEnd(_, _)
LineEnd(text, end) ==
    IF end < Len(text) /\ text[end + 1] # NL THEN LineEnd(text, end + 1) ELSE end

line_slice(text, start) == SubSeq(text, start + 1, LineEnd(text, start))

\* str::find(c): 0-based offset of the first c, or None
RECURSIVE FindFrom(_, _, _)
FindFrom(s, c, i) ==
    IF i > Len(s) THEN None
    ELSE IF s[i] = c THEN i - 1
    ELSE FindFrom(s, c, i + 1)

find(s, c) == FindFrom(s, c, 1)

RECURSIVE trim_start(_)
trim_start(s) ==
    IF s # <<>> /\ Head(s) \in {SP, 9, 13} THEN trim_start(Tail(s)) ELSE s

RECURSIVE trim_end(_)
trim_end(s) ==
    IF s # <<>> /\ LastChar(s) \in {SP, 9, 13} THEN trim_end(Pop(s)) ELSE s

trim(s) == trim_end(trim_start(s))

is_valid_line(text, start) ==
    LET t == trim(line_slice(text, start))
    IN  t # <<>> /\ Head(t) # SEMI

yomi_at(text, start) ==
    LET line == line_slice(text, start)
        sp == find(line, SP)
    IN  IF sp # None THEN SubSeq(line, 1, sp) ELSE line

\* str::split(sep) then filter(non-empty)
RECURSIVE SplitNonEmpty(_, _, _)
SplitNonEmpty(s, sep, cur) ==
    IF s = <<>> THEN (IF cur = <<>> THEN <<>> ELSE <<cur>>)
    ELSE IF Head(s) = sep
         THEN (IF cur = <<>> THEN <<>> ELSE <<cur>>) \o SplitNonEmpty(Tail(s), sep, <<>>)
         ELSE SplitNonEmpty(Tail(s), sep, Append(cur, Head(s)))

\* candidates_at that splits whatever follows the space
candidates_at_any_rest(text, start) ==
    LET line == line_slice(text, start)
        sp == find(line, SP)
    IN  IF sp = None THEN <<>>
        ELSE SplitNonEmpty(SubSeq(line, sp + 2, Len(line)), SLASH, <<>>)

candidates_at(text, start) ==
    LET line == line_slice(text, start)
        sp == find(line, SP)
    IN  IF sp = None THEN <<>>
        ELSE LET rest == SubSeq(line, sp + 2, Len(line))
             IN  IF ~starts_with(rest, <<SLASH>>) THEN <<>>
                 ELSE SplitNonEmpty(rest, SLASH, <<>>)

\* the valid line starts in file order
RECURSIVE CollectLineStarts(_, _)
CollectLineStarts(text, i) ==
    IF i > Len(text) THEN <<>>
    ELSE (IF text[i] = NL /\ i < Len(text) /\ is_valid_line(text, i)
          THEN <<i>> ELSE <<>>) \o CollectLineStarts(text, i + 1)

\* slice::sort_by (stable) on the reading of each line
RECURSIVE InsertSorted(_, _, _)
InsertSorted(text, sorted, x) ==
    IF sorted = <<>> THEN <<x>>
    ELSE IF StrCmp(yomi_at(text, x), yomi_at(text, Head(sorted))) < 0
         THEN <<x>> \o sorted
         ELSE <<Head(sorted)>> \o InsertSorted(text, Tail(sorted), x)

RECURSIVE SortByYomi(_, _)
SortByYomi(text, starts) ==
    IF starts = <<>> THEN <<>>
    ELSE InsertSorted(text, SortByYomi(text, Pop(starts)), LastChar(starts))

SingleJisyo_load(text) ==
    [text |-> text,
     line_starts |->
        SortByYomi(text,
            (IF is_valid_line(text, 0) THEN <<0>> ELSE <<>>)
                \o CollectLineStarts(text, 1))]

SingleJisyo_lookup(j, yomi) ==
    LET r == binary_search_by(
                [n \in 1..Len(j.line_starts) |->
                    StrCmp(yomi_at(j.text, j.line_starts[n]), yomi)])
    IN  IF r.found THEN Some(candidates_at(j.text, j.line_starts[r.idx + 1]))
        ELSE NoneOpt

RECURSIVE LookupAll(_, _, _)
LookupAll(vec, yomi, i) ==
    IF i > Len(vec) THEN <<>>
    ELSE LET c == SingleJisyo_lookup(vec[i], yomi)
         IN  (IF c.some THEN c.val ELSE <<>>) \o LookupAll(vec, yomi, i + 1)

\* Jisyo::lookup that stops at the first source that holds the reading
Jisyo_lookup_first_hit(jisyo, yomi) ==
    LET hits == {i \in 1..Len(jisyo) : SingleJisyo_lookup(jisyo[i], yomi).some}
    IN  IF hits = {} THEN NoneOpt
        ELSE SingleJisyo_lookup(jisyo[CHOOSE i \in hits : \A j \in hits : i <= j], yomi)

Jisyo_lookup(jisyo, yomi) ==
    LET ret == LookupAll(jisyo, yomi, 1)
    IN  IF ret = <<>> THEN NoneOpt ELSE Some(ret)

RECURSIVE Jisyo_load(_)
Jisyo_load(texts) ==
    IF texts = <<>> THEN <<>>
    ELSE <<SingleJisyo_load(Head(texts))>> \o Jisyo_load(Tail(texts))

(***************************************************************************)
(* The dictionary files of the session (input data), in configured order.  *)
(*   file 1:  か /家/下/          (U+304B -> U+5BB6, U+4E0B)               *)
(*            かk /下;w/          (okurigana reading, annotated candidate) *)
(*            k /下/              (ASCII reading)                          *)
(*             /家/               (a line that starts with the space: the  *)
(*                                 reading is empty)                       *)
(*   file 2:  k /家;w/            (ASCII reading, annotated candidate)     *)
(*            か> /家/            (reading with a boundary marker)         *)
(*            かa /家/            (okurigana reading, vowel letter)        *)
(***************************************************************************)
JisyoFiles ==
    << <<12363, 32, 47, 23478, 47, 19979, 47, 10,
         12363, 107, 32, 47, 19979, 59, 119, 47, 10,
         107, 32, 47, 19979, 47, 10,
         32, 47, 23478, 47, 10>>,
       <<107, 32, 47, 23478, 59, 119, 47, 10,
         12363, 62, 32, 47, 23478, 47, 10,
         12363, 97, 32, 47, 23478, 47, 10>> >>

TheJisyo == Jisyo_load(JisyoFiles)


(***************************************************************************)
(* state.rs                                                                *)
(***************************************************************************)
Hiragana(zenkaku) == [tag |-> "Hiragana", flag |-> zenkaku]
Katakana(hankaku) == [tag |-> "Katakana", flag |-> hankaku]
ToBeConverted(yomi) == [tag |-> "ToBeConverted", yomi |-> yomi]

Latin(zenkaku) == [tag |-> "Latin", zenkaku |-> zenkaku]
Kana(romaji, state) == [tag |-> "Kana", romaji |-> romaji, state |-> state]
Converting(yomi, candidates, selected_index) ==
    [tag |-> "Converting", yomi |-> yomi, candidates |-> candidates,
     selected_index |-> selected_index]
Abbrev(s) == [tag |-> "Abbrev", s |-> s]

new_hiragana == Hiragana(FALSE)
new_katakana == Katakana(FALSE)
new_latin == Latin(FALSE)
new_kana == Kana(<<>>, new_hiragana)
new_abbrev == Abbrev(<<>>)

\* new_converting that starts on the last candidate
new_converting_last(yomi, jisyo) ==
    LET c == Jisyo_lookup(jisyo, yomi)
    IN  IF c.some THEN Some(Converting(yomi, c.val, Len(c.val) - 1)) ELSE NoneOpt

\* new_converting that opens a conversion on a miss too
new_converting_forced(yomi, jisyo) ==
    LET c == Jisyo_lookup(jisyo, yomi)
    IN  Some(Converting(yomi, IF c.some THEN c.val ELSE <<yomi>>, 0))

\* new_converting that keeps the first candidate only
new_converting_first_only(yomi, jisyo) ==
    LET c == Jisyo_lookup(jisyo, yomi)
    IN  IF c.some THEN Some(Converting(yomi, <<c.val[1]>>, 0)) ELSE NoneOpt

\* new_converting that never finds the reading
new_converting_none(yomi, jisyo) == NoneOpt

new_converting(yomi, jisyo) ==
    LET c == Jisyo_lookup(jisyo, yomi)
    IN  IF c.some THEN Some(Converting(yomi, c.val, 0)) ELSE NoneOpt

\* candidate without the split at ';'
candidate_whole(candidates, selected_index) ==
    [text |-> candidates[selected_index + 1], annotation |-> NoneOpt]

\* str::splitn(2, ';'): [text, annotation]; candidates.get(i).expect(..)
\* panics when selected_index is out of range
candidate(candidates, selected_index) ==
    LET cand == candidates[selected_index + 1]
        at == find(cand, SEMI)
    IN  IF at = None THEN [text |-> cand, annotation |-> NoneOpt]
        ELSE [text |-> SubSeq(cand, 1, at),
              annotation |-> Some(SubSeq(cand, at + 2, Len(cand)))]

\* okuri that takes a trailing lowercase letter of an ASCII reading too
okuri_of_any_reading(yomi) ==
    IF yomi # <<>> /\ is_ascii_lowercase(LastChar(yomi))
    THEN Some(LastChar(yomi))
    ELSE NoneOpt

okuri(yomi) ==
    IF str_is_ascii(yomi) THEN NoneOpt
    ELSE IF yomi # <<>> /\ is_ascii_lowercase(LastChar(yomi))
         THEN Some(LastChar(yomi))
         ELSE NoneOpt

(***************************************************************************)
(* key.rs                                                                  *)
(***************************************************************************)
Moves == {"Left", "Right", "Up", "Down", "RapidUp", "RapidDown",
          "LineHead", "LineTail", "SelectLeft", "SelectRight"}

Navigation(mv) == [ev |-> "Navigation", mv |-> mv]
Char(c) == [ev |-> "Char", c |-> c]
StartYomiOrOkuri(c) == [ev |-> "StartYomiOrOkuri", c |-> c]
CommitCandidateWithChar(c) == [ev |-> "CommitCandidateWithChar", c |-> c]
CommitCandidateWithStartYomi(c) == [ev |-> "CommitCandidateWithStartYomi", c |-> c]
Plain(ev) == [ev |-> ev]

PlainEvents == {"Backspace", "Delete", "ToggleLatin", "ToggleKatakana",
                "ToggleHankakuZenkaku", "CommitUnconverted", "Setsuji",
                "StartConversion", "StartAbbrev", "NextCandidate",
                "PrevCandidate", "CommitCandidate",
                "CommitCandidateWithSetsubiji", "CancelConversion"}

(***************************************************************************)
(* engine.rs: helpers                                                      *)
(***************************************************************************)
\* delete_setsuji that keeps the boundary markers
keep_setsuji(s) == s

RECURSIVE delete_setsuji(_)
delete_setsuji(s) ==
    IF s = <<>> THEN <<>>
    ELSE (IF Head(s) = GT THEN <<>> ELSE <<Head(s)>>) \o delete_setsuji(Tail(s))

convert_to_katakana(hiragana) ==
    [i \in 1..Len(hiragana) |->
        IF hiragana[i] >= 12353 /\ hiragana[i] <= 12438
        THEN hiragana[i] + 96
        ELSE hiragana[i]]

RECURSIVE convert_to_halfwidth_katakana(_)
convert_to_halfwidth_katakana(hiragana) ==
    IF hiragana = <<>> THEN <<>>
    ELSE LET H == HIRAGANA_TO_HALFWIDTH_KATAKANA
             c == Head(hiragana)
             r == binary_search_by(
                    [n \in 1..Len(H) |->
                        IF H[n][1] < c THEN 0 - 1 ELSE IF H[n][1] = c THEN 0 ELSE 1])
         IN  (IF r.found THEN H[r.idx + 1][2] ELSE convert_to_katakana(<<c>>))
                \o convert_to_halfwidth_katakana(Tail(hiragana))

\* convert_to_zenkaku_ascii that maps nothing
keep_hankaku_ascii(c) == c

convert_to_zenkaku_ascii(c) ==
    IF c >= 33 /\ c <= 126 THEN c + 65248
    ELSE IF c = SP THEN 12288
    ELSE c

\* commit_kana that inserts into the buffer in every sub-mode
commit_kana_to_buffer(buf, state, kana) ==
    [b |-> insert_str(buf, kana), state |-> state]

\* commit_kana that echoes the kana of a pending reading into the buffer
commit_kana_echo(buf, state, kana) ==
    IF state.tag = "ToBeConverted"
    THEN [b |-> insert_str(buf, kana), state |-> ToBeConverted(state.yomi \o kana)]
    ELSE commit_kana_to_buffer(buf, state, kana)

\* returns [b, state]
commit_kana(buf, state, kana) ==
    CASE state.tag = "ToBeConverted" ->
            [b |-> buf, state |-> ToBeConverted(state.yomi \o kana)]
      [] state.tag = "Hiragana" ->
            [b |-> insert_str(buf, kana), state |-> state]
      [] state.tag = "Katakana" ->
            [b |-> insert_str(buf,
                        IF state.flag THEN convert_to_halfwidth_katakana(kana)
                        ELSE convert_to_katakana(kana)),
             state |-> state]


(***************************************************************************)
(* engine.rs: the handlers.  Each returns [is, b]: the InputState returned *)
(* and the Buffer as the call leaves it.                                   *)
(***************************************************************************)
Ret(state, buf) == [is |-> state, b |-> buf]

\* returns [b, done]
handle_key_cursor(buf, key) ==
    IF key.ev = "Navigation"
    THEN [b |-> CASE key.mv = "Left" -> move_left(buf).b
                  [] key.mv = "Right" -> move_right(buf).b
                  [] key.mv = "Up" -> move_up(buf).b
                  [] key.mv = "Down" -> move_down(buf).b
                  [] key.mv = "RapidUp" -> rapid_up(buf)
                  [] key.mv = "RapidDown" -> rapid_down(buf)
                  [] key.mv = "LineHead" -> to_line_head(buf)
                  [] key.mv = "LineTail" -> to_line_tail(buf)
                  [] key.mv = "SelectLeft" -> select_left(buf)
                  [] key.mv = "SelectRight" -> select_right(buf),
          done |-> TRUE]
    ELSE IF key.ev = "Delete" THEN [b |-> delete(buf), done |-> TRUE]
    ELSE [b |-> buf, done |-> FALSE]

handle_latin(is_zenkaku, buf, key) ==
    CASE key.ev = "Char" ->
            Ret(Latin(is_zenkaku),
                insert_char(buf, IF is_zenkaku THEN convert_to_zenkaku_ascii(key.c)
                                 ELSE key.c))
      [] key.ev = "ToggleHankakuZenkaku" -> Ret(Latin(~is_zenkaku), buf)
      [] key.ev = "Backspace" -> Ret(Latin(is_zenkaku), backspace(buf))
      [] key.ev = "ToggleLatin" -> Ret(new_kana, buf)
      [] OTHER -> Ret(Latin(is_zenkaku), buf)

handle_abbrev(s, buf, jisyo, key) ==
    CASE key.ev = "Char" -> Ret(Abbrev(Append(s, key.c)), buf)
      [] key.ev = "Backspace" ->
            IF s # <<>> THEN Ret(Abbrev(Pop(s)), buf) ELSE Ret(new_kana, buf)
      [] key.ev = "CommitUnconverted" -> Ret(new_kana, insert_str(buf, s))
      [] key.ev = "StartConversion" ->
            LET c == new_converting(s, jisyo)
            IN  IF c.some THEN Ret(c.val, buf) ELSE Ret(Abbrev(s), buf)
      [] OTHER -> Ret(Abbrev(s), buf)

RECURSIVE handle_key(_, _, _, _)
RECURSIVE handle_kana(_, _, _, _, _)

handle_kana(romaji, state, buf, jisyo, key) ==
    CASE key.ev = "ToggleLatin" -> Ret(new_latin, buf)
      [] key.ev = "StartAbbrev" -> Ret(new_abbrev, buf)
      [] key.ev = "ToggleHankakuZenkaku" ->
            Ret(Kana(romaji,
                     CASE state.tag = "Katakana" -> Katakana(~state.flag)
                       [] state.tag = "Hiragana" -> Hiragana(~state.flag)
                       [] OTHER -> state),
                buf)
      [] key.ev = "ToggleKatakana" ->
            IF state.tag = "ToBeConverted"
            THEN Ret(new_kana,
                     insert_str(buf, convert_to_katakana(delete_setsuji(state.yomi))))
            ELSE Ret(Kana(romaji,
                          CASE state.tag = "Hiragana" -> new_katakana
                            [] state.tag = "Katakana" -> new_hiragana
                            [] OTHER -> state),
                     buf)
      [] key.ev = "StartConversion" ->
            IF state.tag = "ToBeConverted" /\ state.yomi # <<GT>>
               /\ new_converting(state.yomi, jisyo).some
            THEN Ret(new_converting(state.yomi, jisyo).val, buf)
            ELSE Ret(Kana(romaji, state), buf)
      [] key.ev = "Backspace" ->
            IF romaji # <<>> THEN Ret(Kana(Pop(romaji), state), buf)
            ELSE IF state.tag = "ToBeConverted"
                 THEN IF state.yomi # <<>>
                      THEN Ret(Kana(romaji, ToBeConverted(Pop(state.yomi))), buf)
                      ELSE Ret(Kana(romaji, new_hiragana), buf)
                 ELSE Ret(Kana(romaji, state), backspace(buf))
      [] key.ev = "CommitUnconverted" ->
            IF state.tag = "ToBeConverted"
            THEN Ret(new_kana, insert_str(buf, delete_setsuji(state.yomi)))
            ELSE Ret(Kana(romaji, state), buf)
      [] key.ev = "Setsuji" /\ romaji = <<>> ->
            IF state.tag = "ToBeConverted" /\ state.yomi # <<>>
            THEN LET y == Append(state.yomi, GT)
                     c == new_converting(y, jisyo)
                 IN  IF c.some THEN Ret(c.val, buf)
                     ELSE Ret(Kana(romaji, ToBeConverted(y)), buf)
            ELSE Ret(Kana(romaji, ToBeConverted(<<GT>>)), buf)
      [] key.ev = "StartYomiOrOkuri" /\ romaji = <<>> ->
            IF state.tag = "ToBeConverted" /\ state.yomi # <<>>
            THEN LET y == Append(state.yomi, key.c)
                     conv == new_converting(y, jisyo)
                 IN  IF conv.some THEN Ret(conv.val, buf)
                     ELSE Ret(Kana(romaji, ToBeConverted(Pop(y))), buf)
            ELSE handle_kana(<<>>, ToBeConverted(<<>>), buf, jisyo, Char(key.c))
      [] key.ev = "Char" ->
            LET pushed == Append(romaji, key.c)
                m == search_lookup_table(pushed)
            IN  (CASE m.tag = "Success" ->
                        LET k == commit_kana(buf, state, m.commit)
                        IN  Ret(Kana(m.pushback, k.state), k.b)
                  [] m.tag = "Failure" ->
                        LET popped == Pop(pushed)
                        IN  IF state.tag = "ToBeConverted"
                            THEN Ret(Kana(popped, state), buf)
                            ELSE IF (is_ascii_punctuation(key.c) \/ is_ascii_digit(key.c))
                                    /\ popped = <<>>
                                 THEN Ret(Kana(popped, state),
                                          insert_char(buf,
                                              IF state = Hiragana(TRUE)
                                              THEN convert_to_zenkaku_ascii(key.c)
                                              ELSE key.c))
                                 ELSE Ret(Kana(popped, state), buf)
                  [] m.tag = "PrefixMatch" -> Ret(Kana(pushed, state), buf))
      [] OTHER -> Ret(Kana(romaji, state), buf)

\* commit_candidate that drops the okurigana letter of the reading
commit_candidate_no_refeed(yomi, candidates, selected_index, kana_state, buf, jisyo) ==
    Ret(Kana(<<>>, kana_state),
        insert_str(buf, candidate(candidates, selected_index).text))

\* commit_candidate that goes back to composing the reading
commit_candidate_keep_reading(yomi, candidates, selected_index, kana_state, buf, jisyo) ==
    Ret(Kana(<<>>, ToBeConverted(IF okuri(yomi).some THEN Pop(yomi) ELSE yomi)),
        insert_str(buf, candidate(candidates, selected_index).text))

commit_candidate(yomi, candidates, selected_index, kana_state, buf, jisyo) ==
    LET commit == candidate(candidates, selected_index).text
        next_state == Kana(<<>>, kana_state)
        b1 == insert_str(buf, commit)
        o == okuri(yomi)
    IN  IF o.some THEN handle_key(next_state, b1, jisyo, Char(o.val))
        ELSE Ret(next_state, b1)

\* CancelConversion that drops the last char of every non-ASCII reading
cancel_conversion_always_pop(yomi, buf) ==
    IF str_is_ascii(yomi) THEN Ret(Abbrev(yomi), buf)
    ELSE Ret(Kana(<<>>, ToBeConverted(Pop(yomi))), buf)

\* the CancelConversion arm of handle_converting
cancel_conversion(yomi, buf) ==
    IF str_is_ascii(yomi) THEN Ret(Abbrev(yomi), buf)
    ELSE Ret(Kana(<<>>,
                  ToBeConverted(IF is_ascii_lowercase(LastChar(yomi))
                                THEN Pop(yomi) ELSE yomi)),
             buf)

\* handle_converting whose compound commits commit and drop the follow-up key
handle_converting_commit_only(yomi, candidates, selected_index, buf, jisyo, key) ==
    LET committed(kana_state) ==
            commit_candidate(yomi, candidates, selected_index, kana_state, buf, jisyo)
    IN  CASE key.ev = "NextCandidate" ->
                Ret(Converting(yomi, candidates,
                               Min(selected_index + 1, Len(candidates) - 1)), buf)
          [] key.ev = "PrevCandidate" ->
                Ret(Converting(yomi, candidates, SaturatingSub(selected_index, 1)), buf)
          [] key.ev = "CancelConversion" -> cancel_conversion(yomi, buf)
          [] key.ev = "ToggleKatakana" -> committed(new_katakana)
          [] key.ev \in {"CommitCandidate", "StartAbbrev", "CommitCandidateWithStartYomi",
                         "CommitCandidateWithSetsubiji", "CommitCandidateWithChar",
                         "Backspace"} -> committed(new_hiragana)
          [] OTHER -> Ret(Converting(yomi, candidates, selected_index), buf)

handle_converting(yomi, candidates, selected_index, buf, jisyo, key) ==
    LET committed(kana_state) ==
            commit_candidate(yomi, candidates, selected_index, kana_state, buf, jisyo)
        refeed(k) ==
            LET next == committed(new_hiragana)
            IN  handle_key(next.is, next.b, jisyo, k)
    IN  CASE key.ev = "NextCandidate" ->
                Ret(Converting(yomi, candidates,
                               Min(selected_index + 1, Len(candidates) - 1)), buf)
          [] key.ev = "PrevCandidate" ->
                Ret(Converting(yomi, candidates, SaturatingSub(selected_index, 1)), buf)
          [] key.ev = "CancelConversion" -> cancel_conversion(yomi, buf)
          [] key.ev = "CommitCandidate" -> committed(new_hiragana)
          [] key.ev = "ToggleKatakana" -> committed(new_katakana)
          [] key.ev = "StartAbbrev" -> refeed(Plain("StartAbbrev"))
          [] key.ev = "CommitCandidateWithStartYomi" -> refeed(StartYomiOrOkuri(key.c))
          [] key.ev = "CommitCandidateWithSetsubiji" -> refeed(Plain("Setsuji"))
          [] key.ev = "CommitCandidateWithChar" -> refeed(Char(key.c))
          [] key.ev = "Backspace" -> refeed(Plain("Backspace"))
          [] OTHER -> Ret(Converting(yomi, candidates, selected_index), buf)

\* handle_key_state that lets Setsuji and StartYomiOrOkuri through whatever
\* the romaji accumulator holds
handle_key_state_any_romaji(state, buf, jisyo, key) ==
    CASE state.tag = "Kana" ->
            handle_kana(IF key.ev \in {"Setsuji", "StartYomiOrOkuri"}
                        THEN <<>> ELSE state.romaji,
                        state.state, buf, jisyo, key)
      [] state.tag = "Converting" ->
            handle_converting(state.yomi, state.candidates, state.selected_index,
                              buf, jisyo, key)
      [] state.tag = "Latin" -> handle_latin(state.zenkaku, buf, key)
      [] state.tag = "Abbrev" -> handle_abbrev(state.s, buf, jisyo, key)

handle_key_state(state, buf, jisyo, key) ==
    CASE state.tag = "Kana" -> handle_kana(state.romaji, state.state, buf, jisyo, key)
      [] state.tag = "Converting" ->
            handle_converting(state.yomi, state.candidates, state.selected_index,
                              buf, jisyo, key)
      [] state.tag = "Latin" -> handle_latin(state.zenkaku, buf, key)
      [] state.tag = "Abbrev" -> handle_abbrev(state.s, buf, jisyo, key)

\* handle_key that resets the mode on a cursor key
handle_key_reset(state, buf, jisyo, key) ==
    LET cur == handle_key_cursor(buf, key)
    IN  IF cur.done THEN Ret(new_kana, cur.b)
        ELSE handle_key_state(state, buf, jisyo, key)

handle_key(state, buf, jisyo, key) ==
    LET cur == handle_key_cursor(buf, key)
    IN  IF cur.done THEN Ret(state, cur.b)
        ELSE handle_key_state(state, buf, jisyo, key)


(***************************************************************************)
(* Specification SpecBuffer: a client calling the Buffer API directly,     *)
(* starting from Buffer::default().                                        *)
(***************************************************************************)
BufChars == {97, 98, NL}                          \* 'a', 'b', '\n'
BufStrs == {<<97, 98>>, <<98, NL>>, <<NL, 97>>}    \* arguments of insert_str

Fits(buf) == Len(as_string(buf)) <= MaxLen

\* the matcher and the dictionary at rest: the static table and the
\* dictionary of the session, nothing searched yet
IdleMatcher ==
    /\ table = ROMAJI_TO_HIRAGANA
    /\ fragment = <<>>
    /\ kana_match = search_lookup_table(<<>>)

\* the frontend before any command: run() starts with a default snapshot
\* Buffer and has_ss = false
IdleFrontend ==
    /\ ss = BufferDefault
    /\ has_ss = FALSE

IdleJisyo ==
    /\ dict = TheJisyo
    /\ query = <<>>
    /\ answer = Jisyo_lookup(TheJisyo, <<>>)

InsertChar ==
    \E c \in BufChars :
        /\ Fits(insert_char(b, c))
        /\ b' = insert_char(b, c)
        /\ UNCHANGED <<is, mvars, jvars, fvars>>

InsertStr ==
    \E s \in BufStrs :
        /\ Fits(insert_str(b, s))
        /\ b' = insert_str(b, s)
        /\ UNCHANGED <<is, mvars, jvars, fvars>>

Backspace == b' = backspace(b) /\ UNCHANGED <<is, mvars, jvars, fvars>>
Delete == b' = delete(b) /\ UNCHANGED <<is, mvars, jvars, fvars>>
DeleteRange == b' = delete_range(b) /\ UNCHANGED <<is, mvars, jvars, fvars>>
Clear == b' = clear(b) /\ UNCHANGED <<is, mvars, jvars, fvars>>
MoveLeft == b' = move_left(b).b /\ UNCHANGED <<is, mvars, jvars, fvars>>
MoveRight == b' = move_right(b).b /\ UNCHANGED <<is, mvars, jvars, fvars>>
MoveUp == b' = move_up(b).b /\ UNCHANGED <<is, mvars, jvars, fvars>>
MoveDown == b' = move_down(b).b /\ UNCHANGED <<is, mvars, jvars, fvars>>
RapidUp == b' = rapid_up(b) /\ UNCHANGED <<is, mvars, jvars, fvars>>
RapidDown == b' = rapid_down(b) /\ UNCHANGED <<is, mvars, jvars, fvars>>
ToLineHead == b' = to_line_head(b) /\ UNCHANGED <<is, mvars, jvars, fvars>>
ToLineTail == b' = to_line_tail(b) /\ UNCHANGED <<is, mvars, jvars, fvars>>
SelectRight == b' = select_right(b) /\ UNCHANGED <<is, mvars, jvars, fvars>>
SelectLeft == b' = select_left(b) /\ UNCHANGED <<is, mvars, jvars, fvars>>
ClearDirty == b' = clear_dirty(b) /\ UNCHANGED <<is, mvars, jvars, fvars>>

InitBuffer ==
    /\ b = BufferDefault
    /\ is = new_kana
    /\ IdleFrontend
    /\ IdleMatcher
    /\ IdleJisyo

NextBuffer ==
    \/ InsertChar \/ InsertStr \/ Backspace \/ Delete \/ DeleteRange \/ Clear
    \/ MoveLeft \/ MoveRight \/ MoveUp \/ MoveDown \/ RapidUp \/ RapidDown
    \/ ToLineHead \/ ToLineTail \/ SelectRight \/ SelectLeft \/ ClearDirty

SpecBuffer == InitBuffer /\ [][NextBuffer]_vars

(***************************************************************************)
(* Specification Spec: the session.  The frontend creates the default      *)
(* Buffer and InputState::new_kana(), and every key event goes through     *)
(* handle_key with the dictionary loaded at startup.                       *)
(***************************************************************************)
KeyChars == {107, 97}           \* 'k', 'a': letters, also typed with shift
TextChars == KeyChars \cup {12363}     \* and U+304B typed as a literal character

KeyEvents ==
    {Plain(e) : e \in PlainEvents}
        \cup {Navigation(mv) : mv \in Moves}
        \cup {Char(c) : c \in TextChars}
        \cup {StartYomiOrOkuri(c) : c \in KeyChars}
        \cup {CommitCandidateWithChar(c) : c \in TextChars}
        \cup {CommitCandidateWithStartYomi(c) : c \in KeyChars}

ReadingLen(state) ==
    CASE state.tag = "Kana" /\ state.state.tag = "ToBeConverted" ->
            Len(state.state.yomi)
      [] state.tag = "Abbrev" -> Len(state.s)
      [] OTHER -> 0

InBounds(r) ==
    /\ Len(as_string(r.b)) <= MaxBuf
    /\ ReadingLen(r.is) <= MaxYomi

HandleKey ==
    \E key \in KeyEvents :
        \E r \in {handle_key(is, b, TheJisyo, key)} :
            /\ InBounds(r)
            /\ b' = r.b
            /\ is' = r.is
            /\ UNCHANGED <<mvars, jvars, fvars>>

Init ==
    /\ b = BufferDefault
    /\ is = new_kana
    /\ IdleFrontend
    /\ IdleMatcher
    /\ IdleJisyo

Next == HandleKey

Spec == Init /\ [][Next]_vars

(***************************************************************************)
(* frontend.rs: the loop of run().  A terminal key is a record             *)
(* [k, c]: k names the termion Key variant and c is the character of       *)
(* Char(c) and Ctrl(c).  The terminal is large enough (too_small = false). *)
(* The loop state is [b, is, ss, has_ss]; copy_to_command and the drawing  *)
(* calls leave it alone.                                                   *)
(***************************************************************************)
Key(k) == [k |-> k]
KeyChar(c) == [k |-> "Char", c |-> c]
KeyCtrl(c) == [k |-> "Ctrl", c |-> c]

is_ascii_uppercase(c) == c >= 65 /\ c <= 90
to_ascii_lowercase(c) == IF is_ascii_uppercase(c) THEN c + 32 ELSE c

to_front_cmd(k) ==
    CASE k = KeyCtrl(113) -> Some("Quit")
      [] k = KeyCtrl(115) -> Some("SendAndClear")
      [] k = KeyCtrl(100) -> Some("Clear")
      [] k = KeyCtrl(114) -> Some("Refresh")
      [] k = KeyCtrl(120) -> Some("CutSelected")
      [] k = KeyCtrl(118) -> Some("Paste")
      [] k = KeyCtrl(99) -> Some("CopySelected")
      [] k = KeyCtrl(98) -> Some("PrintCodePoint")
      [] k = Key("Esc") -> Some("Undo")
      [] OTHER -> NoneOpt

to_key_event_global(k) ==
    CASE k = KeyCtrl(122) -> Some(Plain("ToggleHankakuZenkaku"))
      [] k = KeyCtrl(108) -> Some(Plain("ToggleLatin"))
      [] k = KeyCtrl(103) -> Some(Plain("CancelConversion"))
      [] k = Key("Left") -> Some(Navigation("Left"))
      [] k = Key("Right") -> Some(Navigation("Right"))
      [] k = Key("Up") -> Some(Navigation("Up"))
      [] k = Key("Down") -> Some(Navigation("Down"))
      [] k = Key("Home") -> Some(Navigation("LineHead"))
      [] k = Key("End") -> Some(Navigation("LineTail"))
      [] k = Key("PageUp") -> Some(Navigation("RapidUp"))
      [] k = Key("PageDown") -> Some(Navigation("RapidDown"))
      [] k = Key("ShiftLeft") -> Some(Navigation("SelectLeft"))
      [] k = Key("ShiftRight") -> Some(Navigation("SelectRight"))
      [] k = Key("Delete") -> Some(Plain("Delete"))
      [] k = Key("Backspace") -> Some(Plain("Backspace"))
      [] OTHER -> NoneOpt

to_key_event_latin(k) ==
    IF k.k = "Char" THEN Some(Char(k.c)) ELSE NoneOpt

to_key_event_abbrev(k) ==
    CASE k = KeyChar(SP) -> Some(Plain("StartConversion"))
      [] k = KeyChar(NL) -> Some(Plain("CommitUnconverted"))
      [] k.k = "Char" -> Some(Char(k.c))
      [] OTHER -> NoneOpt

to_key_event_kana(kana_state, k) ==
    CASE k = KeyChar(113) -> Some(Plain("ToggleKatakana"))
      [] k = KeyChar(GT) -> Some(Plain("Setsuji"))
      [] k = KeyChar(SLASH) -> Some(Plain("StartAbbrev"))
      [] k = KeyChar(SP) ->
            IF kana_state.tag = "ToBeConverted"
            THEN Some(Plain("StartConversion")) ELSE Some(Char(k.c))
      [] k = KeyChar(NL) ->
            IF kana_state.tag = "ToBeConverted"
            THEN Some(Plain("CommitUnconverted")) ELSE Some(Char(k.c))
      [] k.k = "Char" /\ is_ascii_uppercase(k.c) ->
            Some(StartYomiOrOkuri(to_ascii_lowercase(k.c)))
      [] k.k = "Char" -> Some(Char(k.c))
      [] OTHER -> NoneOpt

to_key_event_conversion(k) ==
    CASE k = KeyChar(SP) -> Some(Plain("NextCandidate"))
      [] k = KeyChar(113) -> Some(Plain("ToggleKatakana"))
      [] k = KeyChar(120) -> Some(Plain("PrevCandidate"))
      [] k = KeyChar(NL) -> Some(Plain("CommitCandidate"))
      [] k = KeyChar(GT) -> Some(Plain("CommitCandidateWithSetsubiji"))
      [] k = KeyChar(SLASH) -> Some(Plain("StartAbbrev"))
      [] k.k = "Char" /\ is_ascii_uppercase(k.c) ->
            Some(CommitCandidateWithStartYomi(to_ascii_lowercase(k.c)))
      [] k.k = "Char" -> Some(CommitCandidateWithChar(k.c))
      [] OTHER -> NoneOpt

to_key_event_with_state(state, k) ==
    IF to_key_event_global(k).some THEN to_key_event_global(k)
    ELSE CASE state.tag = "Latin" -> to_key_event_latin(k)
           [] state.tag = "Converting" -> to_key_event_conversion(k)
           [] state.tag = "Kana" -> to_key_event_kana(state.state, k)
           [] state.tag = "Abbrev" -> to_key_event_abbrev(k)

\* returns [ss, has_ss]
take_snapshot(buffer) == [ss |-> buffer, has_ss |-> TRUE]
drop_snapshot(snap) == [ss |-> clear(snap), has_ss |-> FALSE]

\* the loop state
Front(buf, state, snap, has) == [b |-> buf, is |-> state, ss |-> snap, has_ss |-> has]

\* one pass of the loop body on key k; clip is what the paste command of the
\* environment returns
front_cmd(f, cmd, clip) ==
    CASE cmd \in {"Clear", "SendAndClear"} ->
            Front(clear(f.b), f.is, take_snapshot(f.b).ss, take_snapshot(f.b).has_ss)
      [] cmd = "Paste" ->
            Front(insert_str(f.b, clip), f.is,
                  take_snapshot(f.b).ss, take_snapshot(f.b).has_ss)
      [] cmd = "CutSelected" ->
            IF selected_as_string(f.b).some
            THEN Front(delete(f.b), f.is,
                       take_snapshot(f.b).ss, take_snapshot(f.b).has_ss)
            ELSE f
      [] cmd = "Undo" ->
            IF ~f.has_ss THEN f ELSE Front(f.ss, f.is, f.b, f.has_ss)
      [] OTHER -> f

\* front_key_event that drops the snapshot on navigation keys too
front_key_event_always_drops(f, ev) ==
    handle_key(f.is, clear_dirty(f.b), TheJisyo, ev) @@ drop_snapshot(f.ss)

\* the [is, b] that handle_key returns, with the [ss, has_ss] of the pass
front_key_event(f, ev) ==
    handle_key(f.is, clear_dirty(f.b), TheJisyo, ev)
        @@ (IF ev.ev = "Navigation"
            THEN [ss |-> f.ss, has_ss |-> f.has_ss]
            ELSE drop_snapshot(f.ss))

front_step(f, k, clip) ==
    LET f1 == IF to_front_cmd(k).some THEN front_cmd(f, to_front_cmd(k).val, clip)
              ELSE f
        ev == to_key_event_with_state(f1.is, k)
    IN  IF ev.some THEN front_key_event(f1, ev.val) ELSE f1

(***************************************************************************)
(* Specification SpecFrontend: the loop of run() on the keys of a terminal *)
(* whose user types kana, deletes, moves and selects, pastes, and issues   *)
(* the snapshot commands.                                                  *)
(***************************************************************************)
NavigationKeys ==
    {Key(k) : k \in {"Left", "Right", "Up", "Down", "Home", "End",
                     "PageUp", "PageDown", "ShiftLeft", "ShiftRight"}}
EditKeys == {KeyChar(97), Key("Backspace"), Key("Delete")}
ClipTexts == {<<>>, <<98>>, <<98, NL>>}

FrontNow == Front(b, is, ss, has_ss)

FrontFits(f) == Len(as_string(f.b)) <= MaxDoc

\* a key that maps to a key event (none of them is a command key)
FrontKey ==
    \E k \in NavigationKeys \cup EditKeys :
        /\ ~to_front_cmd(k).some
        /\ to_key_event_with_state(is, k).some
        /\ \E f \in {front_key_event(FrontNow, to_key_event_with_state(is, k).val)} :
                /\ FrontFits(f)
                /\ b' = f.b /\ is' = f.is /\ ss' = f.ss /\ has_ss' = f.has_ss
                /\ UNCHANGED <<mvars, jvars>>

\* a command key (none of them maps to a key event, so the pass ends with
\* the command)
CmdClear ==
    /\ to_front_cmd(KeyCtrl(100)) = Some("Clear")
    /\ ~to_key_event_with_state(is, KeyCtrl(100)).some
    /\ \E f \in {front_cmd(FrontNow, "Clear", <<>>)} :
            /\ b' = f.b /\ is' = f.is /\ ss' = f.ss /\ has_ss' = f.has_ss
            /\ UNCHANGED <<mvars, jvars>>

CmdSendAndClear ==
    /\ to_front_cmd(KeyCtrl(115)) = Some("SendAndClear")
    /\ ~to_key_event_with_state(is, KeyCtrl(115)).some
    /\ \E f \in {front_cmd(FrontNow, "SendAndClear", <<>>)} :
            /\ b' = f.b /\ is' = f.is /\ ss' = f.ss /\ has_ss' = f.has_ss
            /\ UNCHANGED <<mvars, jvars>>

CmdPaste ==
    /\ to_front_cmd(KeyCtrl(118)) = Some("Paste")
    /\ ~to_key_event_with_state(is, KeyCtrl(118)).some
    /\ \E clip \in ClipTexts :
            \E f \in {front_cmd(FrontNow, "Paste", clip)} :
                /\ FrontFits(f)
                /\ b' = f.b /\ is' = f.is /\ ss' = f.ss /\ has_ss' = f.has_ss
                /\ UNCHANGED <<mvars, jvars>>

CmdCutSelected ==
    /\ to_front_cmd(KeyCtrl(120)) = Some("CutSelected")
    /\ ~to_key_event_with_state(is, KeyCtrl(120)).some
    /\ \E f \in {front_cmd(FrontNow, "CutSelected", <<>>)} :
            /\ b' = f.b /\ is' = f.is /\ ss' = f.ss /\ has_ss' = f.has_ss
            /\ UNCHANGED <<mvars, jvars>>

CmdUndo ==
    /\ to_front_cmd(Key("Esc")) = Some("Undo")
    /\ ~to_key_event_with_state(is, Key("Esc")).some
    /\ \E f \in {front_cmd(FrontNow, "Undo", <<>>)} :
            /\ b' = f.b /\ is' = f.is /\ ss' = f.ss /\ has_ss' = f.has_ss
            /\ UNCHANGED <<mvars, jvars>>

InitFrontend ==
    /\ b = BufferDefault
    /\ is = new_kana
    /\ IdleFrontend
    /\ IdleMatcher
    /\ IdleJisyo

NextFrontend ==
    \/ FrontKey \/ CmdClear \/ CmdSendAndClear \/ CmdPaste \/ CmdCutSelected \/ CmdUndo

SpecFrontend == InitFrontend /\ [][NextFrontend]_vars


(***************************************************************************)
(* Specification SpecMatcher: search_lookup_table applied to fragments     *)
(* over every sorted table with distinct keys, up to MaxTable entries with *)
(* keys of up to MaxFrag letters; a value either is a kana or ends in an   *)
(* ASCII lowercase letter.                                                 *)
(***************************************************************************)
MatcherKeys == UNION {[1..n -> KeyChars] : n \in 1..MaxFrag}
MatcherFragments == {<<>>} \cup MatcherKeys
MatcherValues == {<<12363>>, <<12387, 107>>}      \* "か", "っk"

MinKey(S) == CHOOSE k \in S : \A j \in S : StrCmp(k, j) <= 0

RECURSIVE SortedTable(_, _)
SortedTable(S, f) ==
    IF S = {} THEN <<>>
    ELSE << <<MinKey(S), f[MinKey(S)]>> >> \o SortedTable(S \ {MinKey(S)}, f)

MatcherTables ==
    UNION {{SortedTable(S, f) : f \in [S -> MatcherValues]} :
                S \in {X \in SUBSET MatcherKeys : Cardinality(X) <= MaxTable}}

InitMatcher ==
    /\ b = BufferDefault
    /\ is = new_kana
    /\ IdleFrontend
    /\ IdleJisyo
    /\ table \in MatcherTables
    /\ fragment = <<>>
    /\ kana_match = search_lookup_table_in(table, <<>>)

Search ==
    \E f \in MatcherFragments :
        /\ fragment' = f
        /\ kana_match' = search_lookup_table_in(table, f)
        /\ UNCHANGED <<b, is, table, jvars, fvars>>

NextMatcher == Search

SpecMatcher == InitMatcher /\ [][NextMatcher]_vars


(***************************************************************************)
(* Specification SpecJisyo: Jisyo::lookup applied to readings, over every  *)
(* Jisyo loaded from 1..MaxSources of the source files below (input data): *)
(*   1:  か /家/下/  then  k /下/     (not in reading order)               *)
(*   2:  k /家;w/  then  か /家/                                           *)
(*   3:  a comment line, a blank line, か /下/ without a final newline     *)
(*   4:  か /                         (a reading and no candidate)         *)
(*   5:  the empty file                                                    *)
(*   6:  か /家/  then  か /下/        (the reading on two lines)           *)
(*   7:  k                            (a line without a space)             *)
(*   8:  k x/家/                      (no '/' after the space)             *)
(***************************************************************************)
JisyoSources ==
    { <<12363, 32, 47, 23478, 47, 19979, 47, 10, 107, 32, 47, 19979, 47, 10>>,
      <<107, 32, 47, 23478, 59, 119, 47, 10, 12363, 32, 47, 23478, 47, 10>>,
      <<59, 99, 10, 10, 12363, 32, 47, 19979, 47>>,
      <<12363, 32, 47, 10>>,
      <<>>,
      <<12363, 32, 47, 23478, 47, 10, 12363, 32, 47, 19979, 47, 10>>,
      <<107, 10>>,
      <<107, 32, 120, 47, 23478, 47, 10>> }

JisyoReadings == {<<>>, <<12363>>, <<107>>, <<97>>}

InitJisyo ==
    /\ b = BufferDefault
    /\ is = new_kana
    /\ IdleFrontend
    /\ IdleMatcher
    /\ dict \in {Jisyo_load(texts) :
                    texts \in UNION {[1..n -> JisyoSources] : n \in 1..MaxSources}}
    /\ query = <<>>
    /\ answer = Jisyo_lookup(dict, <<>>)

Lookup ==
    \E yomi \in JisyoReadings :
        /\ query' = yomi
        /\ answer' = Jisyo_lookup(dict, yomi)
        /\ UNCHANGED <<b, is, mvars, dict, fvars>>

NextJisyo == Lookup

SpecJisyo == InitJisyo /\ [][NextJisyo]_vars


(***************************************************************************)
(* The reference document: one flat string (rows joined by '\n'), a cursor *)
(* offset and an optional selected interval [lo, hi] of offsets.           *)
(***************************************************************************)
RECURSIVE RowStart(_, _)
RowStart(lines, row) ==
    IF row = 0 THEN 0 ELSE RowStart(lines, row - 1) + Len(lines[row]) + 1

Cursor(buf) == <<buf.row, buf.col>>
Rows(buf) == buf.lines

ToRef(buf) ==
    [text |-> as_string(buf),
     off |-> RowStart(buf.lines, buf.row) + buf.col,
     sel |-> buf.selection_origin # None,
     lo |-> RowStart(buf.lines, buf.row) + selection(buf)[1],
     hi |-> RowStart(buf.lines, buf.row) + selection(buf)[2]]

Doc(text, off) == [text |-> text, off |-> off]
DocOf(buf) == Doc(ToRef(buf).text, ToRef(buf).off)

RefRemoveSelection(r) ==
    IF r.sel
    THEN Doc(SubSeq(r.text, 1, r.lo) \o SubSeq(r.text, r.hi + 2, Len(r.text)), r.lo)
    ELSE Doc(r.text, r.off)

RefInsertAt(d, c) ==
    Doc(SubSeq(d.text, 1, d.off) \o <<c>> \o SubSeq(d.text, d.off + 1, Len(d.text)),
        d.off + 1)

RefInsert(r, c) == RefInsertAt(RefRemoveSelection(r), c)

RECURSIVE RefInsertAllAt(_, _)
RefInsertAllAt(d, s) ==
    IF s = <<>> THEN d ELSE RefInsertAllAt(RefInsertAt(d, Head(s)), Tail(s))

RefInsertStr(r, s) ==
    IF s = <<>> THEN Doc(r.text, r.off) ELSE RefInsertAllAt(RefRemoveSelection(r), s)

RefBackspace(r) ==
    IF r.sel THEN RefRemoveSelection(r)
    ELSE IF r.off > 0
         THEN Doc(SubSeq(r.text, 1, r.off - 1) \o SubSeq(r.text, r.off + 1, Len(r.text)),
                  r.off - 1)
         ELSE Doc(r.text, r.off)

RefDelete(r) ==
    IF r.sel THEN RefRemoveSelection(r)
    ELSE Doc(SubSeq(r.text, 1, r.off) \o SubSeq(r.text, r.off + 2, Len(r.text)), r.off)

(***************************************************************************)
(* Claims about the Buffer, under SpecBuffer.                              *)
(***************************************************************************)

\* C1: after any sequence of Buffer operations from the default Buffer there
\* is at least one row, row indexes a row, and 0 <= col <= length of that row.
C1_CursorInBounds ==
    /\ Len(b.lines) >= 1
    /\ b.row >= 0 /\ b.row < Len(b.lines)
    /\ b.col >= 0 /\ b.col <= Len(b.lines[b.row + 1])

\* a state with several rows, the cursor on a later, shorter row at its end
C1_Witness ==
    /\ Len(b.lines) >= 2
    /\ b.row >= 1
    /\ b.col = Len(CurLine(b))
    /\ Len(b.lines[b.row]) > Len(CurLine(b))
    /\ C1_CursorInBounds

\* C2 (as claimed): every insert_char, backspace and delete changes the
\* document string and the cursor offset exactly as the reference document
\* does (a selection is replaced first), and navigation leaves the document
\* string alone.
C2_RefinesReference ==
    /\ \A c \in BufChars : DocOf(insert_char(b, c)) = RefInsert(ToRef(b), c)
    /\ DocOf(backspace(b)) = RefBackspace(ToRef(b))
    /\ DocOf(delete(b)) = RefDelete(ToRef(b))
    /\ \A nav \in {move_left(b).b, move_right(b).b, move_up(b).b, move_down(b).b,
                   rapid_up(b), rapid_down(b), to_line_head(b), to_line_tail(b),
                   select_left(b), select_right(b)} :
            as_string(nav) = as_string(b)

\* C3: a successful move_left followed by move_right restores (row, col),
\* also across a row boundary; move_left at the document start and move_right
\* at the document end return false and leave (row, col) alone, repeatedly.
C3_LeftRightInverse ==
    LET l == move_left(b)
        r == move_right(b)
    IN  /\ l.done => /\ move_right(l.b).done
                     /\ Cursor(move_right(l.b).b) = Cursor(b)
        /\ (b.row = 0 /\ b.col = 0) =>
                /\ ~l.done /\ Cursor(l.b) = Cursor(b)
                /\ ~move_left(l.b).done /\ Cursor(move_left(l.b).b) = Cursor(b)
        /\ (b.row = Len(b.lines) - 1 /\ b.col = Len(CurLine(b))) =>
                /\ ~r.done /\ Cursor(r.b) = Cursor(b)
                /\ ~move_right(r.b).done /\ Cursor(move_right(r.b).b) = Cursor(b)

\* the cursor at the head of a non-empty row below a non-empty row: move_left
\* crosses the row boundary
C3_Witness ==
    /\ b.row >= 1 /\ b.col = 0
    /\ Len(CurLine(b)) > 0 /\ Len(b.lines[b.row]) > 0
    /\ move_left(b).done
    /\ Cursor(move_left(b).b) = <<b.row - 1, Len(b.lines[b.row])>>
    /\ Cursor(move_right(move_left(b).b).b) = Cursor(b)

\* C4: insert_char('\n') followed by backspace yields the rows and the
\* cursor (row, col) of the state before the insert.
C4_NewlineBackspace ==
    LET r == backspace(insert_char(b, NL))
    IN  Rows(r) = Rows(b) /\ Cursor(r) = Cursor(b)

\* the cursor strictly inside a row: the insert splits it into two non-empty halves
C4_Witness ==
    /\ b.col > 0 /\ b.col < Len(CurLine(b))
    /\ Len(insert_char(b, NL).lines) = Len(b.lines) + 1
    /\ Rows(backspace(insert_char(b, NL))) = Rows(b)

\* C5 (as claimed): with a selection active, insert_char(c) equals
\* delete_range followed by the insert of c without a selection, for an
\* ordinary character and for the line separator alike.
C5_InsertReplacesSelection ==
    b.selection_origin # None =>
        \A c \in BufChars :
            LET r == insert_char(b, c)
                d == insert_char(delete_range(b), c)
            IN  /\ Rows(r) = Rows(d) /\ Cursor(r) = Cursor(d)
                /\ DocOf(r) = RefInsert(ToRef(b), c)


\* C25: with an active selection [lo, hi] (the min and max of origin and col)
\* each of backspace, delete and delete_range removes exactly the characters
\* at columns lo..hi of the cursor row, leaves every other row and character
\* as it is, puts the cursor at column lo and clears the selection.
C25_SelectionDelete ==
    b.selection_origin # None =>
        LET lo == Min(b.selection_origin, b.col)
            hi == Max(b.selection_origin, b.col)
            line == CurLine(b)
            rows == [b.lines EXCEPT ![b.row + 1] =
                        SubSeq(line, 1, lo) \o SubSeq(line, hi + 2, Len(line))]
        IN  /\ hi < Len(line)
            /\ \A r \in {backspace(b), delete(b), delete_range(b)} :
                    /\ r.lines = rows
                    /\ r.row = b.row
                    /\ r.col = lo
                    /\ r.selection_origin = None

\* two characters are selected in the middle of a row of four, which is not
\* the only row's worth of text, and delete leaves the two around them
C25_Witness ==
    /\ b.selection_origin # None
    /\ AbsDiff(b.selection_origin, b.col) = 1
    /\ Min(b.selection_origin, b.col) = 1
    /\ Len(CurLine(b)) = 4
    /\ delete(b).lines[b.row + 1] = <<CurLine(b)[1], CurLine(b)[4]>>


\* the results of every public Buffer operation but clear_dirty
BufferCalls(buf) ==
    {insert_char(buf, c) : c \in BufChars}
        \cup {insert_str(buf, s) : s \in BufStrs \cup {<<>>}}
        \cup {backspace(buf), delete(buf), delete_range(buf), clear(buf),
              move_left(buf).b, move_right(buf).b, move_up(buf).b, move_down(buf).b,
              rapid_up(buf), rapid_down(buf), to_line_head(buf), to_line_tail(buf),
              select_right(buf), select_left(buf)}

\* modes of the session that handle_key is called in
SessionModes ==
    {new_kana, Kana(<<107>>, new_katakana), Kana(<<>>, Hiragana(TRUE)),
     Kana(<<>>, ToBeConverted(<<12363>>)), new_latin, Latin(TRUE), Abbrev(<<107>>),
     Converting(<<12363>>, << <<23478>>, <<19979>> >>, 0),
     Converting(<<12363, 97>>, << <<23478>> >>, 0)}

\* the results of every handle_key call
KeyCalls(buf) ==
    {handle_key(mode, buf, TheJisyo, key).b : mode \in SessionModes, key \in KeyEvents}

\* rows, cursor and selection origin
Shape(buf) == <<buf.lines, buf.row, buf.col, buf.selection_origin>>

\* C24: from dirty = false, a Buffer operation or a handle_key call that
\* changes the rows, the cursor or the selection origin leaves is_dirty()
\* true; and nothing but clear_dirty takes a dirty Buffer to dirty = false.
C24_DirtyContract ==
    LET clean == clear_dirty(b)
    IN  /\ ~is_dirty(clean)
        /\ \A r \in BufferCalls(clean) \cup KeyCalls(clean) :
                Shape(r) # Shape(clean) => is_dirty(r)
        /\ is_dirty(b) =>
                \A r \in BufferCalls(b) \cup KeyCalls(b) : is_dirty(r)

\* the flag has been cleared on a Buffer with a character before the cursor:
\* select_left, and Backspace on an open conversion, change it and set the flag
C24_Witness ==
    /\ ~is_dirty(b)
    /\ b.col > 0
    /\ Shape(select_left(b)) # Shape(b)
    /\ is_dirty(select_left(b))
    /\ LET r == handle_key(Converting(<<12363>>, << <<23478>>, <<19979>> >>, 0), b,
                           TheJisyo, Plain("Backspace")).b
       IN  r # b /\ is_dirty(r)


\* C35: a select_left or select_right call that can move sets the selection
\* origin, when none is set, to min(col, row length - 1), keeps an existing
\* origin, and moves the cursor one column on the same row; select_right moves
\* only to columns <= row length - 1 and select_left only to columns >= 0; a
\* call that cannot move leaves cursor and selection origin unchanged.
C35_Select ==
    LET len == Len(b.lines[b.row + 1])
        origin == IF b.selection_origin # None THEN b.selection_origin
                  ELSE IF b.col <= len - 1 THEN b.col ELSE len - 1
        moved(to) == [b EXCEPT !.dirty = TRUE, !.col = to, !.selection_origin = origin]
        stays == [b EXCEPT !.dirty = TRUE]
    IN  /\ select_right(b) = IF b.col + 1 <= len - 1 THEN moved(b.col + 1) ELSE stays
        /\ select_left(b) = IF b.col - 1 >= 0 THEN moved(b.col - 1) ELSE stays
        /\ select_right(b).col # b.col => select_right(b).col <= len - 1
        /\ select_left(b).col >= 0

\* the cursor stands behind "ab" with no selection: select_left anchors the
\* selection on 'b' (column 1, not 2), a second select_left keeps that origin,
\* and a third cannot move
C35_Witness ==
    /\ b.lines = <<<<97, 98>>>>
    /\ b.col = 2 /\ b.selection_origin = None
    /\ select_left(b).selection_origin = 1 /\ select_left(b).col = 1
    /\ select_left(select_left(b)).selection_origin = 1
    /\ select_left(select_left(b)).col = 0
    /\ select_left(select_left(select_left(b))) = select_left(select_left(b))
    /\ select_right(b) = [b EXCEPT !.dirty = TRUE]

\* C36: whenever a selection is active, the selection origin and the cursor
\* column both index characters of the cursor row, so the selected interval
\* holds at least one character and ends inside the row; and a selection that
\* is still active after a Buffer operation is on the same row with the same
\* content and origin as before it.
C36_SelectionInsideRow ==
    b.selection_origin # None =>
        LET len == Len(b.lines[b.row + 1])
        IN  /\ b.selection_origin >= 0 /\ b.selection_origin < len
            /\ b.col >= 0 /\ b.col < len
            /\ selected_as_string(b).some
            /\ Len(selected_as_string(b).val) = AbsDiff(b.selection_origin, b.col) + 1
            /\ \A c \in BufferCalls(b) :
                    c.selection_origin # None =>
                        /\ c.row = b.row /\ c.lines = b.lines
                        /\ c.selection_origin = b.selection_origin

\* "ab" on the second of two rows, selected from the row end leftwards: the
\* origin is the column of 'b' and the selection is "ab"
C36_Witness ==
    /\ b.lines = <<<<>>, <<97, 98>>>>
    /\ b.row = 1 /\ b.col = 0 /\ b.selection_origin = 1
    /\ selected_as_string(b) = Some(<<97, 98>>)

\* C37: after move_left, move_right, move_up, move_down, rapid_up,
\* rapid_down, to_line_head or to_line_tail no selection is active, also when
\* the call returns false at a boundary of the document.
C37_MovesClearSelection ==
    /\ \A m \in {move_left(b), move_right(b), move_up(b), move_down(b)} :
            /\ m.b.selection_origin = None
            /\ ~m.done => Cursor(m.b) = Cursor(b)
    /\ \A r \in {rapid_up(b), rapid_down(b), to_line_head(b), to_line_tail(b)} :
            r.selection_origin = None

\* "ab" is selected from 'b' back to the head of the only row: move_left and
\* move_up cannot move and return false, move_down returns false too, and
\* each of them drops the selection
C37_Witness ==
    /\ b.lines = <<<<97, 98>>>>
    /\ b.col = 0 /\ b.selection_origin = 1
    /\ move_left(b) = [b |-> [b EXCEPT !.selection_origin = None, !.dirty = TRUE],
                       done |-> FALSE]
    /\ ~move_up(b).done /\ ~move_down(b).done
    /\ move_up(b).b.selection_origin = None
    /\ to_line_head(b).selection_origin = None

(***************************************************************************)
(* Claims about handle_key, under Spec.                                    *)
(***************************************************************************)
Handle(key) == handle_key(is, b, TheJisyo, key)

CursorKeys == {Navigation(mv) : mv \in Moves} \cup {Plain("Delete")}

\* 12363 is U+304B (hiragana ka), 23478 is U+5BB6, 19979 is U+4E0B

\* C6: in every mode, a Navigation or Delete event returns the mode unchanged
\* in every field.
C6_CursorKeysKeepMode ==
    \A key \in CursorKeys : Handle(key).is = is

\* a candidate list is open and a select key moves the cursor and sets the
\* selection origin
C6_Witness ==
    /\ is.tag = "Converting"
    /\ Handle(Navigation("SelectLeft")).b.selection_origin # None
    /\ Handle(Navigation("SelectLeft")).b.col # b.col
    /\ Handle(Navigation("SelectLeft")).is = is

\* C7: from default Kana mode, StartYomiOrOkuri('k'), Char('a'),
\* StartConversion reach Converting with candidates [U+5BB6, U+4E0B] and
\* selected_index 0 with the buffer untouched; CommitCandidate then inserts
\* U+5BB6 at the cursor and returns default Kana mode.
C7_ConvertKa ==
    is = new_kana =>
        LET s1 == handle_key(is, b, TheJisyo, StartYomiOrOkuri(107))
            s2 == handle_key(s1.is, s1.b, TheJisyo, Char(97))
            s3 == handle_key(s2.is, s2.b, TheJisyo, Plain("StartConversion"))
            s4 == handle_key(s3.is, s3.b, TheJisyo, Plain("CommitCandidate"))
        IN  /\ s3.is = Converting(<<12363>>, << <<23478>>, <<19979>> >>, 0)
            /\ s3.b = b
            /\ s4.is = new_kana
            /\ DocOf(s4.b) = RefInsertStr(ToRef(b), <<23478>>)

\* the conversion of the reading U+304B is open on its first candidate and
\* CommitCandidate puts U+5BB6 before the cursor
C7_Witness ==
    /\ is = Converting(<<12363>>, << <<23478>>, <<19979>> >>, 0)
    /\ Handle(Plain("CommitCandidate")).is = new_kana
    /\ LET r == Handle(Plain("CommitCandidate")).b
       IN  r.col > 0 /\ CurLine(r)[r.col] = 23478

QueryReading(state) == Jisyo_lookup(TheJisyo, state.yomi) = Some(state.candidates)

StripOkuri(yomi) ==
    IF yomi # <<>> /\ is_ascii_lowercase(LastChar(yomi)) THEN Pop(yomi) ELSE yomi

\* C8 (as claimed): from every reachable Converting state CancelConversion
\* yields a Kana mode whose pending ToBeConverted reading is the reading of
\* the dictionary query, up to one trailing okurigana letter stripped.
C8_CancelYieldsKana ==
    is.tag = "Converting" =>
        LET r == Handle(Plain("CancelConversion")).is
        IN  /\ QueryReading(is)
            /\ r.tag = "Kana"
            /\ r.state.tag = "ToBeConverted"
            /\ r.state.yomi \in {is.yomi, StripOkuri(is.yomi)}

\* C8 (amended): the same when the reading is not pure ASCII; for a pure
\* ASCII reading CancelConversion yields Abbrev with the reading of the query.
C8_CancelYieldsReading ==
    is.tag = "Converting" =>
        LET r == Handle(Plain("CancelConversion")).is
        IN  /\ QueryReading(is)
            /\ ~str_is_ascii(is.yomi) =>
                    /\ r.tag = "Kana"
                    /\ r.state.tag = "ToBeConverted"
                    /\ r.state.yomi \in {is.yomi, StripOkuri(is.yomi)}
                    /\ Len(is.yomi) - Len(r.state.yomi) <= 1
            /\ str_is_ascii(is.yomi) => r.tag = "Abbrev" /\ r.s = is.yomi

\* a conversion of a reading with an okurigana letter is open and
\* CancelConversion yields the reading without the letter
C8_Witness ==
    /\ is.tag = "Converting"
    /\ okuri(is.yomi).some
    /\ Handle(Plain("CancelConversion")).is = Kana(<<>>, ToBeConverted(Pop(is.yomi)))

\* the first sentence of C9: CancelConversion leaves the buffer alone and
\* returns Abbrev(yomi) for a pure ASCII reading, else Kana with empty romaji
\* and ToBeConverted(yomi') with the last char dropped iff it is an ASCII
\* lowercase letter
CancelIsExact ==
    is.tag = "Converting" =>
        LET r == Handle(Plain("CancelConversion"))
        IN  /\ r.b = b
            /\ r.is = IF str_is_ascii(is.yomi) THEN Abbrev(is.yomi)
                      ELSE Kana(<<>>, ToBeConverted(StripOkuri(is.yomi)))

\* the second sentence of C9: StartConversion (hit) then CancelConversion
\* restores an Abbrev reading, or an okurigana-free Kana reading
CancelRestoresReading ==
    (is.tag = "Abbrev" \/ (is.tag = "Kana" /\ is.state.tag = "ToBeConverted")) =>
        LET s == Handle(Plain("StartConversion"))
            r == handle_key(s.is, s.b, TheJisyo, Plain("CancelConversion"))
        IN  s.is.tag = "Converting" =>
                /\ r.b = b
                /\ is.tag = "Abbrev" => r.is = is
                /\ (is.tag = "Kana" /\ StripOkuri(is.state.yomi) = is.state.yomi) =>
                        r.is = Kana(<<>>, is.state)

\* C9 (as claimed): CancelConversion leaves the buffer alone and returns
\* Abbrev(yomi) for a pure ASCII reading, else Kana with empty romaji and
\* ToBeConverted(yomi') with the last char dropped iff it is an ASCII
\* lowercase letter; so StartConversion (hit) then CancelConversion restores
\* an Abbrev reading or an okurigana-free Kana reading.
C9_CancelConversion ==
    CancelIsExact /\ CancelRestoresReading

RECURSIVE UpToSemi(_)
UpToSemi(s) ==
    IF s = <<>> \/ Head(s) = SEMI THEN <<>> ELSE <<Head(s)>> \o UpToSemi(Tail(s))

CommitKeys ==
    {Plain("CommitCandidate"), Plain("ToggleKatakana"), Plain("StartAbbrev"),
     Plain("CommitCandidateWithSetsubiji")}
        \cup {CommitCandidateWithStartYomi(c) : c \in KeyChars}

\* the kana that the okurigana letter of the reading puts into the buffer
\* when it is typed in the sub-mode ks with an empty romaji accumulator
OkuriKana(yomi, ks) ==
    LET o == okuri(yomi)
        m == IF o.some THEN search_lookup_table(<<o.val>>) ELSE Failure
    IN  IF m.tag # "Success" THEN <<>>
        ELSE IF ks.tag = "Katakana" THEN [i \in 1..Len(m.commit) |-> m.commit[i] + 96]
        ELSE m.commit

\* C10: every commit inserts exactly candidates[selected_index] up to, and
\* not including, the first ';' (the whole candidate when it has none); only
\* the kana of the okurigana letter of the reading may follow it.
C10_CommitInsertsPrimaryText ==
    is.tag = "Converting" =>
        LET text == UpToSemi(is.candidates[is.selected_index + 1])
            want(ks) == RefInsertStr(ToRef(b), text \o OkuriKana(is.yomi, ks))
        IN  /\ \A ks \in {new_hiragana, new_katakana} :
                    DocOf(commit_candidate(is.yomi, is.candidates, is.selected_index,
                                           ks, b, TheJisyo).b) = want(ks)
            /\ \A key \in CommitKeys :
                    DocOf(Handle(key).b) =
                        want(IF key.ev = "ToggleKatakana" THEN new_katakana
                             ELSE new_hiragana)

\* the selected candidate carries an annotation and CommitCandidate inserts
\* the text before the ';' only
C10_Witness ==
    /\ is.tag = "Converting"
    /\ find(is.candidates[is.selected_index + 1], SEMI) # None
    /\ LET r == Handle(Plain("CommitCandidate")).b
           text == UpToSemi(is.candidates[is.selected_index + 1])
       IN  /\ text # <<>>
           /\ Len(as_string(r)) = Len(as_string(b)) + Len(text)
                    - (IF b.selection_origin # None
                       THEN selection(b)[2] - selection(b)[1] + 1 ELSE 0)
           /\ CurLine(r)[r.col] = LastChar(text)


(***************************************************************************)
(* Claims about commits in Converting, under Spec.                         *)
(***************************************************************************)
HasOkuri(yomi) ==
    ~str_is_ascii(yomi) /\ is_ascii_lowercase(LastChar(yomi))

Committed == Handle(Plain("CommitCandidate"))

\* the key handled in the state that CommitCandidate leaves
AfterCommit(key) == handle_key(Committed.is, Committed.b, TheJisyo, key)

\* C11: when the Converting reading is non-ASCII and ends in an ASCII
\* lowercase letter, a commit inserts the candidate and then handles
\* Char(letter) in the resulting Kana mode, and a compound commit handles its
\* follow-up key only after that; when the reading has no such letter,
\* nothing is re-fed and CommitCandidate returns Kana with empty romaji and
\* Hiragana(false).
C11_CommitRefeedsOkuri ==
    is.tag = "Converting" =>
        LET text == candidate(is.candidates, is.selected_index).text
            inserted == insert_str(b, text)
            letter == LastChar(is.yomi)
            fed(ks) == handle_key(Kana(<<>>, ks), inserted, TheJisyo, Char(letter))
        IN  /\ HasOkuri(is.yomi) =>
                    /\ Committed = fed(new_hiragana)
                    /\ \A ks \in {new_hiragana, new_katakana} :
                            commit_candidate(is.yomi, is.candidates, is.selected_index,
                                             ks, b, TheJisyo) = fed(ks)
                    /\ \A c \in TextChars :
                            Handle(CommitCandidateWithChar(c)) =
                                handle_key(fed(new_hiragana).is, fed(new_hiragana).b,
                                           TheJisyo, Char(c))
            /\ ~HasOkuri(is.yomi) =>
                    /\ Committed = Ret(new_kana, inserted)
                    /\ \A ks \in {new_hiragana, new_katakana} :
                            commit_candidate(is.yomi, is.candidates, is.selected_index,
                                             ks, b, TheJisyo) = Ret(Kana(<<>>, ks), inserted)

\* the reading ends in the letter k: after the commit the letter is the
\* romaji accumulator, and the follow-up a completes it to U+304B
C11_Witness ==
    /\ is.tag = "Converting"
    /\ HasOkuri(is.yomi)
    /\ Committed.is = Kana(<<LastChar(is.yomi)>>, new_hiragana)
    /\ Handle(CommitCandidateWithChar(97)).is = new_kana
    /\ LET r == Handle(CommitCandidateWithChar(97)).b
       IN  r.col > 1 /\ CurLine(r)[r.col] = 12363

\* C12: for every Converting state, CommitCandidateWithChar(c),
\* CommitCandidateWithStartYomi(c), CommitCandidateWithSetsubiji and
\* StartAbbrev give the mode and buffer of CommitCandidate followed by
\* Char(c), StartYomiOrOkuri(c), Setsuji and StartAbbrev in the resulting mode.
C12_CompoundCommits ==
    is.tag = "Converting" =>
        /\ \A c \in TextChars :
                Handle(CommitCandidateWithChar(c)) = AfterCommit(Char(c))
        /\ \A c \in KeyChars :
                Handle(CommitCandidateWithStartYomi(c)) = AfterCommit(StartYomiOrOkuri(c))
        /\ Handle(Plain("CommitCandidateWithSetsubiji")) = AfterCommit(Plain("Setsuji"))
        /\ Handle(Plain("StartAbbrev")) = AfterCommit(Plain("StartAbbrev"))

\* every compound commit of an open conversion ends in a state that differs
\* from the state of the plain commit
C12_Witness ==
    /\ is.tag = "Converting"
    /\ Handle(CommitCandidateWithChar(97)).b # Committed.b
    /\ Handle(CommitCandidateWithStartYomi(107)).is = Kana(<<107>>, ToBeConverted(<<>>))
    /\ Handle(Plain("CommitCandidateWithSetsubiji")).is = Kana(<<>>, ToBeConverted(<<GT>>))
    /\ Handle(Plain("StartAbbrev")).is = new_abbrev

\* C13 (as claimed): for every Converting state, ToggleKatakana gives the
\* mode and buffer of CommitCandidate followed by ToggleKatakana in the
\* resulting mode.
C13_ToggleKatakanaRefeeds ==
    is.tag = "Converting" =>
        Handle(Plain("ToggleKatakana")) = AfterCommit(Plain("ToggleKatakana"))

\* C14 (as claimed): Backspace in Converting does not insert the candidate
\* and returns Kana mode with the reading restored as the pending reading
\* (with or without its okurigana letter) and Backspace applied to it.
C14_BackspaceRestoresReading ==
    is.tag = "Converting" =>
        LET r == Handle(Plain("Backspace"))
            unwound(y) ==
                handle_key(Kana(<<>>, ToBeConverted(y)), b, TheJisyo, Plain("Backspace")).is
        IN  /\ DocOf(r.b) = DocOf(b)
            /\ r.is \in {unwound(is.yomi), unwound(StripOkuri(is.yomi))}


(***************************************************************************)
(* Claims about the matcher, under SpecMatcher.                            *)
(***************************************************************************)
\* the linear scan of the table
RefKanaMatch(T, f) ==
    IF f = <<>> THEN "Failure"
    ELSE IF \E n \in 1..Len(T) : T[n][1] = f THEN "Success"
    ELSE IF \E n \in 1..Len(T) :
                Len(T[n][1]) > Len(f) /\ SubSeq(T[n][1], 1, Len(f)) = f
         THEN "PrefixMatch"
    ELSE "Failure"

\* C16: on every sorted table with distinct keys and every fragment,
\* search_lookup_table agrees with the linear scan: Success iff the fragment
\* is a key, PrefixMatch iff it is no key but a strict prefix of one, Failure
\* otherwise and for the empty fragment.
C16_MatcherAgreesWithScan ==
    kana_match.tag = RefKanaMatch(table, fragment)

\* a PrefixMatch found on an entry that is not the first of the table
C16_Witness ==
    /\ Len(table) >= 2
    /\ kana_match = PrefixMatch
    /\ ~starts_with(table[1][1], fragment)

\* C17: on Success commit \o pushback is the mapped value, and the pushback
\* is the value's last char when that is an ASCII lowercase letter, else empty.
C17_SuccessSplitsValue ==
    kana_match.tag = "Success" =>
        \E n \in 1..Len(table) :
            /\ table[n][1] = fragment
            /\ kana_match.commit \o kana_match.pushback = table[n][2]
            /\ kana_match.pushback =
                    IF is_ascii_lowercase(LastChar(table[n][2]))
                    THEN <<LastChar(table[n][2])>> ELSE <<>>

\* a Success on a value that ends in a letter: the letter is pushed back
C17_Witness ==
    /\ kana_match.tag = "Success"
    /\ kana_match.commit # <<>>
    /\ kana_match.pushback = <<107>>


(***************************************************************************)
(* Claims about Kana and Abbrev mode, under Spec.                          *)
(***************************************************************************)
\* C15: when the dictionary has no entry for the reading, StartConversion in
\* Kana mode with a pending reading and in Abbrev mode returns the same mode
\* with the same reading and romaji and leaves the buffer as it is.
C15_MissKeepsMode ==
    LET miss(y) == ~Jisyo_lookup(TheJisyo, y).some
        r == Handle(Plain("StartConversion"))
    IN  /\ (is.tag = "Kana" /\ is.state.tag = "ToBeConverted" /\ miss(is.state.yomi)) =>
                r = Ret(is, b)
        /\ (is.tag = "Abbrev" /\ miss(is.s)) => r = Ret(is, b)

\* a pending reading that the dictionary does not hold, with a letter in the
\* romaji accumulator, and StartConversion returns it
C15_Witness ==
    /\ is.tag = "Kana"
    /\ is.state.tag = "ToBeConverted"
    /\ is.state.yomi # <<>>
    /\ is.romaji # <<>>
    /\ ~Jisyo_lookup(TheJisyo, is.state.yomi).some
    /\ Handle(Plain("StartConversion")).is = is

\* the value that the table maps the key to, by a linear scan
TableValue(T, k) == T[CHOOSE n \in 1..Len(T) : T[n][1] = k][2]

\* the half-width form of a hiragana string, by a linear scan of the table
RefHalfwidth(s) ==
    LET H == HIRAGANA_TO_HALFWIDTH_KATAKANA
        one(c) == IF \E n \in 1..Len(H) : H[n][1] = c
                  THEN H[CHOOSE n \in 1..Len(H) : H[n][1] = c][2]
                  ELSE <<c>>
        RECURSIVE all(_)
        all(t) == IF t = <<>> THEN <<>> ELSE one(Head(t)) \o all(Tail(t))
    IN  all(s)

\* C19: in Kana mode, a Char key that completes the romaji accumulator to a
\* table key appends the commit kana to the pending reading in sub-mode
\* ToBeConverted (buffer unchanged) and otherwise inserts it into the buffer
\* as hiragana, katakana or half-width katakana by the sub-mode; the romaji
\* accumulator becomes the pushback.
C19_CharOnExactKey ==
    is.tag = "Kana" =>
        \A c \in TextChars :
            LET pushed == Append(is.romaji, c)
                r == Handle(Char(c))
            IN  RefKanaMatch(ROMAJI_TO_HIRAGANA, pushed) = "Success" =>
                    LET value == TableValue(ROMAJI_TO_HIRAGANA, pushed)
                        back == IF is_ascii_lowercase(LastChar(value))
                                THEN <<LastChar(value)>> ELSE <<>>
                        kana == SubSeq(value, 1, Len(value) - Len(back))
                        st == is.state
                    IN  /\ r.is.tag = "Kana"
                        /\ r.is.romaji = back
                        /\ st.tag = "ToBeConverted" =>
                                /\ r.b = b
                                /\ r.is.state = ToBeConverted(st.yomi \o kana)
                        /\ st.tag # "ToBeConverted" =>
                                /\ r.is.state = st
                                /\ DocOf(r.b) =
                                      RefInsertStr(ToRef(b),
                                        CASE st.tag = "Hiragana" -> kana
                                          [] st.tag = "Katakana" /\ ~st.flag ->
                                                [i \in 1..Len(kana) |-> kana[i] + 96]
                                          [] st.tag = "Katakana" /\ st.flag ->
                                                RefHalfwidth(kana))

\* a new reading is being composed with k in the accumulator: Char a sends
\* U+304B to the pending reading and empties the accumulator
C19_Witness ==
    /\ is = Kana(<<107>>, ToBeConverted(<<>>))
    /\ Handle(Char(97)) = Ret(Kana(<<>>, ToBeConverted(<<12363>>)), b)

\* C20: in every reachable Kana state the romaji accumulator is empty or a
\* strict prefix of a table key (a pushback of this table is one); it is
\* never a complete table key and never a fragment the matcher rejects.
C20_RomajiIsPrefix ==
    is.tag = "Kana" =>
        \/ is.romaji = <<>>
        \/ RefKanaMatch(ROMAJI_TO_HIRAGANA, is.romaji) = "PrefixMatch"

\* kk has been typed in Hiragana sub-mode: U+3063 is in the buffer and the
\* accumulator holds the pushback k
C20_Witness ==
    /\ is = Kana(<<107>>, new_hiragana)
    /\ b.col > 0
    /\ CurLine(b)[b.col] = 12387


(***************************************************************************)
(* Claims about the dictionary, under SpecJisyo.                           *)
(***************************************************************************)
\* the starts of the entry lines of a source text that carry the reading,
\* by a scan of the text
RefLines(text, yomi) ==
    {s \in 0..(Len(text) - 1) :
        /\ s = 0 \/ text[s] = NL
        /\ is_valid_line(text, s)
        /\ yomi_at(text, s) = yomi}

\* the concatenations, in source order from source i on, of the candidates
\* of one line per source that carries the reading
RECURSIVE RefMerge(_, _, _)
RefMerge(jisyo, yomi, i) ==
    IF i > Len(jisyo) THEN {<<>>}
    ELSE LET L == RefLines(jisyo[i].text, yomi)
             heads == IF L = {} THEN {<<>>}
                      ELSE {candidates_at(jisyo[i].text, s) : s \in L}
         IN  {h \o t : h \in heads, t \in RefMerge(jisyo, yomi, i + 1)}

EverySourceMisses ==
    \A i \in 1..Len(dict) : RefLines(dict[i].text, query) = {}

\* C18 (as claimed): lookup returns the candidates of every source that
\* holds the reading, concatenated in source order and in line order, and
\* not-found only if every source misses.
C18_LookupConcatenates ==
    \E m \in RefMerge(dict, query, 1) :
        answer = IF EverySourceMisses THEN NoneOpt ELSE Some(m)

\* C18 (amended): the same concatenation, and not-found exactly when it is
\* empty: when every source misses or holds the reading on lines without
\* candidates only.
C18_LookupConcatenatesNonEmpty ==
    \E m \in RefMerge(dict, query, 1) :
        answer = IF m = <<>> THEN NoneOpt ELSE Some(m)

\* two sources hold the reading and the answer has a candidate of the first
\* source again from the second
C18_Witness ==
    /\ Len(dict) = 2
    /\ \A i \in 1..2 : RefLines(dict[i].text, query) # {}
    /\ answer.some
    /\ dict[1] # dict[2]
    /\ \E i, j \in 1..Len(answer.val) : i < j /\ answer.val[i] = answer.val[j]


\* the line of text that starts at offset s, up to its newline
LineAt(text, s) ==
    LET ends == {e \in s..Len(text) : e = Len(text) \/ text[e + 1] = NL}
    IN  SubSeq(text, s + 1, CHOOSE e \in ends : \A f \in ends : e <= f)

\* a line is malformed when it has no space, or when the character after its
\* first space is not '/'
Malformed(line) ==
    \/ \A p \in DOMAIN line : line[p] # SP
    \/ \E p \in DOMAIN line :
            /\ line[p] = SP /\ \A q \in 1..(p - 1) : line[q] # SP
            /\ (p = Len(line) \/ line[p + 1] # SLASH)

\* the starts of the lines of the text
LineStartsOf(text) == {s \in 0..(Len(text) - 1) : s = 0 \/ text[s] = NL}

\* C38: a line without a space, or without '/' right after its first space,
\* yields no candidates; lookup never answers with an empty list; and a
\* reading whose lines yield no candidates in every source is not found.
C38_MalformedLines ==
    /\ \A i \in 1..Len(dict) :
            \A s \in LineStartsOf(dict[i].text) :
                Malformed(LineAt(dict[i].text, s)) =>
                    candidates_at(dict[i].text, s) = <<>>
    /\ answer.some => answer.val # <<>>
    /\ (\A i \in 1..Len(dict) :
            \A s \in RefLines(dict[i].text, query) :
                candidates_at(dict[i].text, s) = <<>>)
            => answer = NoneOpt
    /\ answer = Jisyo_lookup(dict, query)

\* both sources hold the reading "k", one on a line without a space and one
\* on a line without '/' after the space: the reading is not found
C38_Witness ==
    /\ Len(dict) = 2
    /\ dict[1].text = <<107, 10>>
    /\ dict[2].text = <<107, 32, 120, 47, 23478, 47, 10>>
    /\ query = <<107>>
    /\ RefLines(dict[1].text, query) # {} /\ RefLines(dict[2].text, query) # {}
    /\ answer = NoneOpt

(***************************************************************************)
(* Claims about Backspace and the candidate list, under Spec.              *)
(***************************************************************************)
\* C22: Backspace in Kana mode removes the last romaji character if romaji
\* is non-empty; else the last character of a non-empty pending reading;
\* else, composing an empty reading, switches the sub-mode to Hiragana(false);
\* else performs a buffer backspace.  The buffer is touched in the last case
\* only.
C22_KanaBackspace ==
    is.tag = "Kana" =>
        \A r \in {Handle(Plain("Backspace"))} :
            CASE is.romaji # <<>> ->
                    r = Ret(Kana(SubSeq(is.romaji, 1, Len(is.romaji) - 1), is.state), b)
              [] is.romaji = <<>> /\ is.state.tag = "ToBeConverted"
                    /\ is.state.yomi # <<>> ->
                    r = Ret(Kana(<<>>, ToBeConverted(SubSeq(is.state.yomi, 1,
                                                    Len(is.state.yomi) - 1))), b)
              [] is.romaji = <<>> /\ is.state.tag = "ToBeConverted"
                    /\ is.state.yomi = <<>> ->
                    r = Ret(Kana(<<>>, Hiragana(FALSE)), b)
              [] OTHER ->
                    /\ r.is = is
                    /\ DocOf(r.b) = RefBackspace(ToRef(b))
                    /\ r.b.selection_origin = None

\* Katakana sub-mode with a character before the cursor: Backspace removes
\* it and keeps the mode
C22_Witness ==
    /\ is = Kana(<<>>, new_katakana)
    /\ b.col > 0
    /\ Len(as_string(Handle(Plain("Backspace")).b)) = Len(as_string(b)) - 1

\* C23: in every reachable Converting state the candidate list is non-empty
\* and 0 <= selected_index <= len - 1; NextCandidate and PrevCandidate move
\* the index by one, stopping at len - 1 and at 0, and leave the reading, the
\* candidates and the buffer as they are.
C23_CandidateIndex ==
    is.tag = "Converting" =>
        LET n == Len(is.candidates)
            i == is.selected_index
        IN  /\ n >= 1
            /\ 0 <= i /\ i <= n - 1
            /\ Handle(Plain("NextCandidate")) =
                    Ret(Converting(is.yomi, is.candidates, IF i = n - 1 THEN i ELSE i + 1), b)
            /\ Handle(Plain("PrevCandidate")) =
                    Ret(Converting(is.yomi, is.candidates, IF i = 0 THEN 0 ELSE i - 1), b)

\* the last of several candidates is selected: NextCandidate stays on it and
\* PrevCandidate steps back
C23_Witness ==
    /\ is.tag = "Converting"
    /\ is.selected_index = Len(is.candidates) - 1
    /\ is.selected_index >= 1
    /\ Handle(Plain("NextCandidate")).is = is
    /\ Handle(Plain("PrevCandidate")).is.selected_index = is.selected_index - 1

ConversionKeys ==
    {Plain("StartConversion"), Plain("Setsuji")}
        \cup {StartYomiOrOkuri(c) : c \in KeyChars}

\* C26: in every reachable Converting state the candidate list is the
\* dictionary's answer for the stored reading, and a conversion attempt that
\* enters Converting enters it with that answer and selected_index 0.
C26_CandidatesAreLookup ==
    /\ is.tag = "Converting" =>
            Jisyo_lookup(TheJisyo, is.yomi) = Some(is.candidates)
    /\ is.tag # "Converting" =>
            \A key \in ConversionKeys :
                \A r \in {Handle(key)} :
                    r.is.tag = "Converting" =>
                        /\ r.is.selected_index = 0
                        /\ Jisyo_lookup(TheJisyo, r.is.yomi) = Some(r.is.candidates)
                        /\ r.b = b

\* the pending reading U+304B: StartConversion opens the two sources'
\* candidates on the first one
C26_Witness ==
    /\ is = Kana(<<>>, ToBeConverted(<<12363>>))
    /\ Handle(Plain("StartConversion")).is =
            Converting(<<12363>>, Jisyo_lookup(TheJisyo, <<12363>>).val, 0)
    /\ Len(Jisyo_lookup(TheJisyo, <<12363>>).val) >= 2


(***************************************************************************)
(* Claims about re-dispatch, under Spec.                                   *)
(***************************************************************************)
\* the key that handle_converting hands to handle_key after the commit
FollowUp(key) ==
    CASE key.ev = "StartAbbrev" -> Plain("StartAbbrev")
      [] key.ev = "CommitCandidateWithStartYomi" -> StartYomiOrOkuri(key.c)
      [] key.ev = "CommitCandidateWithSetsubiji" -> Plain("Setsuji")
      [] key.ev = "CommitCandidateWithChar" -> Char(key.c)
      [] key.ev = "Backspace" -> Plain("Backspace")

\* the calls of handle_key and handle_kana that one handle_key call makes,
\* itself not counted: Char(okuri) from commit_candidate, the follow-up key
\* from handle_converting, Char(c) from handle_kana's StartYomiOrOkuri arm
RECURSIVE Redispatches(_, _, _, _)
Redispatches(state, buf, jisyo, key) ==
    CASE state.tag = "Kana" ->
            IF /\ key.ev = "StartYomiOrOkuri"
               /\ state.romaji = <<>>
               /\ ~(state.state.tag = "ToBeConverted" /\ state.state.yomi # <<>>)
            THEN 1 ELSE 0
      [] state.tag = "Converting" ->
            LET ks == IF key.ev = "ToggleKatakana" THEN new_katakana ELSE new_hiragana
                o == okuri(state.yomi)
                inserted == insert_str(buf, candidate(state.candidates,
                                                      state.selected_index).text)
                inner == IF o.some
                         THEN 1 + Redispatches(Kana(<<>>, ks), inserted, jisyo, Char(o.val))
                         ELSE 0
            IN  (CASE key.ev \in {"CommitCandidate", "ToggleKatakana"} -> inner
                  [] key.ev \in {"StartAbbrev", "CommitCandidateWithStartYomi",
                                 "CommitCandidateWithSetsubiji",
                                 "CommitCandidateWithChar", "Backspace"} ->
                        \* handle_key_cursor takes none of these keys
                        LET next == commit_candidate(state.yomi, state.candidates,
                                                     state.selected_index, ks, buf, jisyo)
                        IN  inner + 1 + Redispatches(next.is, next.b, jisyo, FollowUp(key))
                  [] OTHER -> 0)
      [] OTHER -> 0

CommitTriggers ==
    {Plain("CommitCandidate"), Plain("ToggleKatakana"), Plain("StartAbbrev"),
     Plain("CommitCandidateWithSetsubiji"), Plain("Backspace")}
        \cup {CommitCandidateWithChar(c) : c \in TextChars}
        \cup {CommitCandidateWithStartYomi(c) : c \in KeyChars}

\* C27: every handle_key call makes at most three re-dispatches (the
\* okurigana letter, the follow-up key, and the first letter of a new
\* reading), and every key that commits in Converting returns Kana or Abbrev.
C27_BoundedRedispatch ==
    /\ \A key \in KeyEvents : Redispatches(is, b, TheJisyo, key) <= 3
    /\ is.tag = "Converting" =>
            \A key \in CommitTriggers : Handle(key).is.tag \in {"Kana", "Abbrev"}

\* a reading with a vowel okurigana letter: committing with the start of a
\* new reading makes all three re-dispatches and ends composing that reading
C27_Witness ==
    /\ is.tag = "Converting"
    /\ okuri(is.yomi).some
    /\ Redispatches(is, b, TheJisyo, CommitCandidateWithStartYomi(107)) = 3
    /\ Handle(CommitCandidateWithStartYomi(107)).is = Kana(<<107>>, ToBeConverted(<<>>))


(***************************************************************************)
(* Claims about composing a reading, under Spec.                           *)
(***************************************************************************)
Composing == is.tag = "Kana" /\ is.state.tag = "ToBeConverted"

ComposingKeys ==
    {Plain("Backspace"), Plain("Setsuji"), Plain("StartConversion")}
        \cup {Char(c) : c \in TextChars}
        \cup {StartYomiOrOkuri(c) : c \in KeyChars}

C29_OkuriLookup ==
    (Composing /\ is.romaji = <<>> /\ is.state.yomi # <<>>) =>
        \A c \in KeyChars :
            \A hit \in {Jisyo_lookup(TheJisyo, Append(is.state.yomi, c))} :
                Handle(StartYomiOrOkuri(c)) =
                    Ret(IF hit.some THEN Converting(Append(is.state.yomi, c), hit.val, 0)
                        ELSE Kana(<<>>, ToBeConverted(is.state.yomi)),
                        b)

\* the reading U+304B: the letter k is a hit and opens the conversion; and
\* the reading U+3063: the letter k is a miss and is rolled back
C29_Witness ==
    /\ Composing
    /\ is.romaji = <<>>
    /\ is.state.yomi = <<12387>>
    /\ ~Jisyo_lookup(TheJisyo, <<12387, 107>>).some
    /\ Handle(StartYomiOrOkuri(107)).is = is

\* C30: Setsuji with empty romaji, composing a non-empty reading y, looks up
\* y \o ">": Converting with that reading on a hit, Kana with that pending
\* reading (marker kept) on a miss; not composing, or composing an empty
\* reading, it gives Kana with the pending reading ">"; the buffer is
\* unchanged in every case.
C30_Setsuji ==
    (is.tag = "Kana" /\ is.romaji = <<>>) =>
        IF is.state.tag = "ToBeConverted" /\ is.state.yomi # <<>>
        THEN \A hit \in {Jisyo_lookup(TheJisyo, Append(is.state.yomi, GT))} :
                Handle(Plain("Setsuji")) =
                    Ret(IF hit.some THEN Converting(Append(is.state.yomi, GT), hit.val, 0)
                        ELSE Kana(<<>>, ToBeConverted(Append(is.state.yomi, GT))),
                        b)
        ELSE Handle(Plain("Setsuji")) = Ret(Kana(<<>>, ToBeConverted(<<GT>>)), b)

\* the reading U+304B: Setsuji finds U+304B ">" in the dictionary
C30_Witness ==
    /\ is = Kana(<<>>, ToBeConverted(<<12363>>))
    /\ Handle(Plain("Setsuji")).is.tag = "Converting"
    /\ Handle(Plain("Setsuji")).is.yomi = <<12363, GT>>


(***************************************************************************)
(* Claims about StartConversion, under Spec.                               *)
(***************************************************************************)
BoundaryOnly(yomi) == \A i \in 1..Len(yomi) : yomi[i] = GT

\* C21 (as claimed): StartConversion in Kana mode returns the mode and the
\* buffer unchanged, without a lookup, in a sub-mode that composes no
\* reading, for an empty reading and for a reading of boundary markers only.
C21_StartConversionGuard ==
    (is.tag = "Kana" /\ (is.state.tag # "ToBeConverted" \/ BoundaryOnly(is.state.yomi))) =>
        Handle(Plain("StartConversion")) = Ret(is, b)

(***************************************************************************)
(* Claims about keys that Kana mode ignores or flushes.                    *)
(***************************************************************************)
\* C31: in Kana mode with a non-empty romaji accumulator, StartYomiOrOkuri(c)
\* and Setsuji return the mode (romaji, sub-mode, pending reading) and the
\* buffer exactly as they were.
C31_PendingRomajiIgnores ==
    (is.tag = "Kana" /\ is.romaji # <<>>) =>
        \A key \in {Plain("Setsuji")} \cup {StartYomiOrOkuri(c) : c \in KeyChars} :
            Handle(key) = Ret(is, b)

\* the reading U+304B with the fragment "k" pending: without the fragment
\* both keys would look the reading up
C31_Witness ==
    /\ is = Kana(<<107>>, ToBeConverted(<<12363>>))
    /\ Handle(Plain("Setsuji")) = Ret(is, b)
    /\ Handle(StartYomiOrOkuri(97)) = Ret(is, b)

\* the reading without its boundary markers, and its katakana
WithoutMarkers(y) == SelectSeq(y, LAMBDA c : c # GT)
RefKatakana(s) == [i \in DOMAIN s |-> IF s[i] \in 12353..12438 THEN s[i] + 96 ELSE s[i]]

\* the composing states at hand: the current one and the ones one Char or
\* Setsuji key away (their reading is one character longer)
ReadingStates ==
    {r \in {Ret(is, b)}
            \cup {Handle(Char(c)) : c \in TextChars}
            \cup {Handle(Plain("Setsuji"))} :
        r.is.tag = "Kana" /\ r.is.state.tag = "ToBeConverted"}

\* C32: while a reading y is composed, CommitUnconverted inserts y without
\* its '>' markers and ToggleKatakana inserts the katakana of y without its
\* '>' markers; both return Kana with empty romaji and Hiragana(false),
\* whatever romaji was pending and whatever the dictionary holds for y.
C32_FlushReading ==
    Composing =>
        \A s \in ReadingStates :
            /\ \A r \in {handle_key(s.is, s.b, TheJisyo, Plain("CommitUnconverted"))} :
                    /\ r.is = Kana(<<>>, Hiragana(FALSE))
                    /\ DocOf(r.b) = RefInsertStr(ToRef(s.b), WithoutMarkers(s.is.state.yomi))
            /\ \A r \in {handle_key(s.is, s.b, TheJisyo, Plain("ToggleKatakana"))} :
                    /\ r.is = Kana(<<>>, Hiragana(FALSE))
                    /\ DocOf(r.b) =
                            RefInsertStr(ToRef(s.b),
                                         RefKatakana(WithoutMarkers(s.is.state.yomi)))

\* the reading ">" with "k" pending: 'a' makes the reading ">" U+304B, which
\* is flushed as U+304B, or as U+30AB by ToggleKatakana
C32_Witness ==
    /\ is = Kana(<<107>>, ToBeConverted(<<GT>>))
    /\ b.lines = <<<<>>>>
    /\ Handle(Char(97)).is = Kana(<<>>, ToBeConverted(<<GT, 12363>>))
    /\ handle_key(Handle(Char(97)).is, b, TheJisyo, Plain("ToggleKatakana"))
        = Ret(new_kana, insert_str(b, <<12459>>))
    /\ handle_key(Handle(Char(97)).is, b, TheJisyo, Plain("CommitUnconverted"))
        = Ret(new_kana, insert_str(b, <<12363>>))

\* characters offered to Kana mode: the session's, and ' ', '!', '1', 'z', '~'
ProbeChars == TextChars \cup {32, 33, 49, 122, 126}
AsciiDigits == 48 .. 57
AsciiPunctuation == (33 .. 47) \cup (58 .. 64) \cup (91 .. 96) \cup (123 .. 126)
FullWidth(c) == IF c \in 33 .. 126 THEN c + 65248 ELSE c

\* C33: in Kana mode outside reading composition, a Char key whose fragment
\* the matcher rejects leaves the mode as it was (the character is dropped
\* from the accumulator); the character is inserted into the buffer iff it is
\* ASCII punctuation or a digit and the accumulator is empty, and it is
\* inserted full-width iff the sub-mode is Hiragana(true).
C33_RejectedChar ==
    (is.tag = "Kana" /\ is.state.tag # "ToBeConverted") =>
        \A c \in ProbeChars :
            RefKanaMatch(ROMAJI_TO_HIRAGANA, Append(is.romaji, c)) = "Failure" =>
                \A r \in {Handle(Char(c))} :
                    /\ r.is = is
                    /\ IF c \in AsciiDigits \cup AsciiPunctuation /\ is.romaji = <<>>
                       THEN DocOf(r.b) =
                                RefInsert(ToRef(b),
                                          IF is.state = Hiragana(TRUE)
                                          THEN FullWidth(c) ELSE c)
                       ELSE r.b = b

\* Hiragana with the zenkaku flag and an empty accumulator: '1' is inserted as
\* U+FF11, the letter 'z' and the space are not inserted
C33_Witness ==
    /\ is = Kana(<<>>, Hiragana(TRUE))
    /\ b.lines = <<<<>>>>
    /\ as_string(Handle(Char(49)).b) = <<65297>>
    /\ Handle(Char(122)) = Ret(is, b)
    /\ Handle(Char(32)) = Ret(is, b)

(***************************************************************************)
(* Claims about Abbrev mode.                                               *)
(***************************************************************************)
AllAscii(s) == \A i \in DOMAIN s : s[i] < 128

\* C34: in Abbrev mode Char(c) appends c to the reading and leaves the buffer
\* alone; Backspace removes the last reading character, or returns Kana
\* default on an empty reading; CommitUnconverted inserts the reading into the
\* buffer and returns Kana default; StartConversion on a hit enters Converting
\* with the reading as typed; and committing a candidate of an ASCII reading
\* re-feeds no okurigana letter: the candidate's text is all that is inserted
\* and the mode is Kana default.
C34_Abbrev ==
    /\ is.tag = "Abbrev" =>
        /\ \A c \in ProbeChars : Handle(Char(c)) = Ret(Abbrev(is.s \o <<c>>), b)
        /\ Handle(Plain("Backspace")) =
                Ret(IF is.s = <<>> THEN Kana(<<>>, Hiragana(FALSE))
                    ELSE Abbrev(SubSeq(is.s, 1, Len(is.s) - 1)),
                    b)
        /\ \A r \in {Handle(Plain("CommitUnconverted"))} :
                /\ r.is = Kana(<<>>, Hiragana(FALSE))
                /\ DocOf(r.b) = RefInsertStr(ToRef(b), is.s)
        /\ \A hit \in {Jisyo_lookup(TheJisyo, is.s)} :
                Handle(Plain("StartConversion")) =
                    Ret(IF hit.some THEN Converting(is.s, hit.val, 0) ELSE is, b)
    /\ (is.tag = "Converting" /\ AllAscii(is.yomi)) =>
            \A r \in {Handle(Plain("CommitCandidate"))} :
                /\ r.is = Kana(<<>>, Hiragana(FALSE))
                /\ DocOf(r.b) =
                        RefInsertStr(ToRef(b), UpToSemi(is.candidates[is.selected_index + 1]))

\* the reading "k" is converted: the two sources' candidates are offered under
\* the reading "k", and the commit inserts U+4E0B without re-feeding 'k'
C34_Witness ==
    /\ is = Abbrev(<<107>>)
    /\ b.lines = <<<<>>>>
    /\ Handle(Plain("StartConversion")).is =
            Converting(<<107>>, <<<<19979>>, <<23478, SEMI, 119>>>>, 0)
    /\ handle_key(Handle(Plain("StartConversion")).is, b, TheJisyo, Plain("CommitCandidate"))
            = Ret(new_kana, insert_str(b, <<19979>>))

(***************************************************************************)
(* Claims about the snapshot of the frontend loop, under SpecFrontend.     *)
(***************************************************************************)
\* the loop states up to two navigation keys after f
AfterNavigation(f) ==
    LET one == {front_step(f, k, <<>>) : k \in NavigationKeys}
    IN  {f} \cup one \cup {front_step(g, k, <<>>) : g \in one, k \in NavigationKeys}

\* the loop states after the commands in Cmds, issued now
AfterCommand(Cmds) ==
    {front_step(FrontNow, k, clip) : k \in Cmds, clip \in ClipTexts}

\* Undo after navigation after a command of Cmds gives the Buffer of now
UndoRestores(Cmds) ==
    \A f \in AfterCommand(Cmds) :
        \A g \in AfterNavigation(f) :
            front_step(g, Key("Esc"), <<>>).b = b

\* a key event other than navigation leaves no snapshot, and Undo without a
\* snapshot changes nothing
SnapshotDiscipline ==
    /\ \A k \in EditKeys \cup {KeyChar(75), KeyCtrl(122), KeyCtrl(103)} :
            front_step(FrontNow, k, <<>>).has_ss = FALSE
    /\ \A k \in NavigationKeys :
            /\ front_step(FrontNow, k, <<>>).has_ss = has_ss
            /\ front_step(FrontNow, k, <<>>).ss = ss
    /\ ~has_ss => front_step(FrontNow, Key("Esc"), <<>>) = FrontNow

\* C39 (as claimed): Undo after Clear, SendAndClear, Paste or CutSelected,
\* with only navigation keys in between, restores the Buffer to its state
\* before that command; a non-navigation key event discards the snapshot;
\* Undo without a snapshot leaves the Buffer unchanged.
C39_UndoRestoresBuffer ==
    /\ UndoRestores({KeyCtrl(100), KeyCtrl(115), KeyCtrl(118), KeyCtrl(120)})
    /\ SnapshotDiscipline

\* C39 (amended): the same, for a CutSelected that has something to cut: a
\* selected interval, or a character under the cursor.
C39_UndoRestoresAfterMutation ==
    /\ UndoRestores({KeyCtrl(100), KeyCtrl(115), KeyCtrl(118)})
    /\ selected_as_string(b).some => UndoRestores({KeyCtrl(120)})
    /\ SnapshotDiscipline

\* two characters are selected while an older snapshot is held: CutSelected
\* empties the Buffer and replaces the snapshot, and after a navigation key
\* Undo brings the two characters, the cursor and the selection back
C39_Witness ==
    /\ has_ss /\ ss # b
    /\ Len(b.lines) = 1 /\ Len(b.lines[1]) = 2
    /\ b.selection_origin = 1 /\ b.col = 0
    /\ front_step(FrontNow, KeyCtrl(120), <<>>).b.lines = <<<<>>>>
    /\ front_step(FrontNow, KeyCtrl(120), <<>>).ss = b
    /\ front_step(front_step(front_step(FrontNow, KeyCtrl(120), <<>>), Key("End"), <<>>),
                  Key("Esc"), <<>>).b = b

====
